---- MODULE Spec2Model ----
(***************************************************************************)
(* RouSage/shortener: short-code allocation, cache-aside resolution and    *)
(* the user block/unblock saga, modelled from the handlers in              *)
(* internal/server, the SQL queries in internal/repository/queries, the    *)
(* cache wrapper in internal/cache and the generator in internal/generator.*)
(* Every handler is a process; one step of a process is one interaction    *)
(* with the store, the cache or the identity provider, so that concurrent  *)
(* requests interleave exactly at those points.                            *)
(***************************************************************************)
EXTENDS Integers, Sequences, FiniteSets, TLC

(***************************************************************************)
(* Bounds of the model                                                     *)
(***************************************************************************)
\* number of concurrent request handlers
NumProcs == 2
\* number of requests started in one run
MaxOps == 3
\* hours that pass in one step of the cache clock
TickHours == 12
\* the store's clock runs from 1 to MaxTime
MaxTime == 2

(***************************************************************************)
(* Program constants                                                       *)
(***************************************************************************)
maxRetries == 3
defaultLength == 8
defaultExpire == 24
MinShortCode == 5
MaxShortCode == 16

Procs == 1..NumProcs

\* auth.GetUserID(c) yields a *string: nil, or a pointer to the subject
Nil == "nil"
Owners == {"u1", "u2"}
UserIds == {Nil, ""} \cup Owners

(***************************************************************************)
(* Strings that the code inspects are sequences of characters.             *)
(***************************************************************************)
Lower == {"a","b","c","d","e","f","g","h","i","j","k","l","m",
          "n","o","p","q","r","s","t","u","v","w","x","y","z"}
Upper == {"A","B","C","D","E","F","G","H","I","J","K","L","M",
          "N","O","P","Q","R","S","T","U","V","W","X","Y","Z"}
Digit == {"0","1","2","3","4","5","6","7","8","9"}
\* the character class of the regexp ^[a-zA-Z0-9_-]+$
ShortCodeChars == Lower \cup Upper \cup Digit \cup {"_", "-"}

Rep(ch, n) == [i \in 1..n |-> ch]

\* a long URL: scheme and host; NoUrl is the empty string
NoUrl == [scheme |-> "", host |-> ""]
UrlA == [scheme |-> "https", host |-> "a"]
UrlB == [scheme |-> "http", host |-> "b"]
UrlFtp == [scheme |-> "ftp", host |-> "a"]

(***************************************************************************)
(* Request validation (struct tags of the DTOs)                            *)
(***************************************************************************)
\* shortcode: the whole string matches ^[a-zA-Z0-9_-]+$
ValidateShortCode(code) ==
    /\ Len(code) >= 1
    /\ \A i \in 1..Len(code) : code[i] \in ShortCodeChars

\* validate:"omitempty,min=5,max=16,shortcode"
ValidShortCodeField(code) ==
    \/ code = <<>>
    \/ /\ Len(code) >= MinShortCode
       /\ Len(code) =< MaxShortCode
       /\ ValidateShortCode(code)

\* validate:"required,http_url"
ValidUrlField(url) ==
    /\ url # NoUrl
    /\ url.scheme \in {"http", "https"}
    /\ url.host # ""

ValidateCreateDTO(code, url) == ValidShortCodeField(code) /\ ValidUrlField(url)

\* validate:"required" of GetLongUrlParams.Code
ValidateCodeParam(code) == code # <<>>

(***************************************************************************)
(* CodeGenerator: generator.ShortUrl.  The random source picks the last    *)
(* character; ok = FALSE is a failure of the random source.                *)
(***************************************************************************)
GenChars == {"a", "b"}

\* EffectiveLength that takes the default for the length 0 only
EffectiveLength_ZeroOnly(length) == IF length = 0 THEN defaultLength ELSE length

EffectiveLength(length) == IF length =< 0 THEN defaultLength ELSE length

ShortUrl(length, ch, ok) ==
    IF ok
    THEN [id |-> Rep("a", EffectiveLength(length) - 1) \o <<ch>>, err |-> FALSE]
    ELSE [id |-> <<>>, err |-> TRUE]

(***************************************************************************)
(* UrlStore: table urls(id PK, long_url, is_custom, user_id NULL) with the *)
(* check constraint custom_urls_require_user.                              *)
(***************************************************************************)
UrlRow_Anonymous(id, longUrl, isCustom, userId) ==
    [id |-> id, long_url |-> longUrl, is_custom |-> isCustom, user_id |-> Nil]

UrlRow(id, longUrl, isCustom, userId) ==
    [id |-> id, long_url |-> longUrl, is_custom |-> isCustom, user_id |-> userId]

NoRow == UrlRow(<<>>, NoUrl, FALSE, Nil)

\* CHECK (is_custom = false OR user_id IS NOT NULL)
custom_urls_require_user(row) == (row.is_custom = FALSE) \/ (row.user_id # Nil)

\* CreateUrl on a table without the primary key
CreateUrl_NoPrimaryKey(rows, row, ok) ==
    IF ~ok THEN [res |-> "other", rows |-> rows]
    ELSE IF ~custom_urls_require_user(row) THEN [res |-> "check", rows |-> rows]
    ELSE [res |-> "ok", rows |-> rows \cup {row}]

\* CreateUrl that fails after the row was written
CreateUrl_WriteThenFail(rows, row, ok) ==
    IF ~ok THEN [res |-> "other", rows |-> rows \cup {row}]
    ELSE IF ~custom_urls_require_user(row) THEN [res |-> "check", rows |-> rows]
    ELSE IF \E r \in rows : r.id = row.id THEN [res |-> "dup", rows |-> rows]
    ELSE [res |-> "ok", rows |-> rows \cup {row}]

\* CreateUrl on a table without the check constraint
CreateUrl_NoCheck(rows, row, ok) ==
    IF ~ok THEN [res |-> "other", rows |-> rows]
    ELSE IF \E r \in rows : r.id = row.id THEN [res |-> "dup", rows |-> rows]
    ELSE [res |-> "ok", rows |-> rows \cup {row}]

\* urls.id is character varying(16)
MaxIdLength == 16

\* INSERT INTO urls ... RETURNING *: the result class and the new table.
\* ok = FALSE is a storage failure other than a constraint violation, as is
\* an id too long for the column.
CreateUrl(rows, row, ok) ==
    IF ~ok \/ Len(row.id) > MaxIdLength THEN [res |-> "other", rows |-> rows]
    ELSE IF ~custom_urls_require_user(row) THEN [res |-> "check", rows |-> rows]
    ELSE IF \E r \in rows : r.id = row.id THEN [res |-> "dup", rows |-> rows]
    ELSE [res |-> "ok", rows |-> rows \cup {row}]

\* GetLongUrl without the WHERE clause
GetLongUrl_AnyRow(rows, code, ok) ==
    IF ~ok THEN [res |-> "other", long_url |-> NoUrl]
    ELSE IF rows # {}
         THEN [res |-> "ok", long_url |-> (CHOOSE r \in rows : TRUE).long_url]
         ELSE [res |-> "notfound", long_url |-> NoUrl]

\* SELECT long_url FROM urls WHERE id = $1 LIMIT 1
GetLongUrl(rows, code, ok) ==
    IF ~ok THEN [res |-> "other", long_url |-> NoUrl]
    ELSE IF \E r \in rows : r.id = code
         THEN [res |-> "ok", long_url |-> (CHOOSE r \in rows : r.id = code).long_url]
         ELSE [res |-> "notfound", long_url |-> NoUrl]

\* DeleteURL that reports the row of the code and leaves it
DeleteURL_ReportOnly(rows, code, ok) ==
    IF ~ok THEN [res |-> "other", n |-> 0, rows |-> rows]
    ELSE [res |-> "ok", n |-> Cardinality({r \in rows : r.id = code}), rows |-> rows]

\* DeleteURL that fails with a missing-row error when it affects no row
DeleteURL_ErrorOnMissing(rows, code, ok) ==
    IF ~ok THEN [res |-> "other", n |-> 0, rows |-> rows]
    ELSE LET hit == {r \in rows : r.id = code}
         IN IF hit = {} THEN [res |-> "notfound", n |-> 0, rows |-> rows]
            ELSE [res |-> "ok", n |-> Cardinality(hit), rows |-> rows \ hit]

\* DELETE FROM urls WHERE id = $1 (rows affected)
DeleteURL(rows, code, ok) ==
    IF ~ok THEN [res |-> "other", n |-> 0, rows |-> rows]
    ELSE LET hit == {r \in rows : r.id = code}
         IN [res |-> "ok", n |-> Cardinality(hit), rows |-> rows \ hit]

\* DeleteAllUserURLs without the WHERE clause
\* DeleteUserURL without the condition on the owner
DeleteUserURL_AnyOwner(rows, code, userId, ok) ==
    IF ~ok THEN [res |-> "other", n |-> 0, rows |-> rows]
    ELSE LET hit == {r \in rows : r.id = code}
         IN [res |-> "ok", n |-> Cardinality(hit), rows |-> rows \ hit]

\* DeleteUserURL(id, user_id): the row of the code is deleted when its
\* user_id is the given one; a row with user_id NULL matches no user
DeleteUserURL(rows, code, userId, ok) ==
    IF ~ok THEN [res |-> "other", n |-> 0, rows |-> rows]
    ELSE LET hit == {r \in rows : r.id = code /\ userId # Nil /\ r.user_id = userId}
         IN [res |-> "ok", n |-> Cardinality(hit), rows |-> rows \ hit]

DeleteAllUserURLs_Everyone(rows, userId, ok) ==
    IF ~ok THEN [res |-> "other", ids |-> {}, rows |-> rows]
    ELSE [res |-> "ok", ids |-> {r.id : r \in rows}, rows |-> {}]

\* DELETE FROM urls WHERE user_id = $1::text RETURNING id
DeleteAllUserURLs(rows, userId, ok) ==
    IF ~ok THEN [res |-> "other", ids |-> {}, rows |-> rows]
    ELSE LET hit == {r \in rows : r.user_id = userId}
         IN [res |-> "ok", ids |-> {r.id : r \in hit}, rows |-> rows \ hit]

(***************************************************************************)
(* Cache: key -> (value, remaining hours to live)                          *)
(***************************************************************************)
getUrlKey(code) == <<"long_url:">> \o code

\* CacheGetLongUrl that returns the entry together with the error
CacheGetLongUrl_ValueWithError(c, code, ok) ==
    IF getUrlKey(code) \in DOMAIN c
    THEN [val |-> c[getUrlKey(code)].val, err |-> ~ok]
    ELSE [val |-> NoUrl, err |-> ~ok]

\* Cache.GetLongUrl: the value of the key, "" for no key and on an error
CacheGetLongUrl(c, code, ok) ==
    IF ~ok THEN [val |-> NoUrl, err |-> TRUE]
    ELSE IF getUrlKey(code) \in DOMAIN c
         THEN [val |-> c[getUrlKey(code)].val, err |-> FALSE]
         ELSE [val |-> NoUrl, err |-> FALSE]

CacheSetLongUrl(c, code, longUrl, ok) ==
    IF ~ok THEN c
    ELSE [k \in DOMAIN c \cup {getUrlKey(code)} |->
            IF k = getUrlKey(code) THEN [val |-> longUrl, ttl |-> defaultExpire]
            ELSE c[k]]

\* CacheDeleteLongURL that leaves the entry in place
CacheDeleteLongURL_Keep(c, code, ok) == c

\* Cache.DeleteLongURL that removes the key also when it reports a failure
CacheDeleteLongURL_Always(c, code, ok) ==
    [k \in DOMAIN c \ {getUrlKey(code)} |-> c[k]]

\* Cache.DeleteLongURL: the key of the code is removed
CacheDeleteLongURL(c, code, ok) ==
    IF ~ok THEN c
    ELSE [k \in DOMAIN c \ {getUrlKey(code)} |-> c[k]]

\* Cache.DeleteLongURLs: the keys of all the codes are removed
CacheDeleteLongURLs(c, codes, ok) ==
    IF ~ok THEN c
    ELSE [k \in DOMAIN c \ {getUrlKey(x) : x \in codes} |-> c[k]]

\* a cache whose entries never expire
CacheElapse_Forever(c, hours) == c

\* entries whose time to live has run out are gone
CacheElapse(c, hours) ==
    [k \in {j \in DOMAIN c : c[j].ttl > hours} |->
        [val |-> c[k].val, ttl |-> c[k].ttl - hours]]

(***************************************************************************)
(* Table user_blocks and the queries on it                                 *)
(***************************************************************************)
\* the value of a timestamp column that is NULL
NoTime == 0

UserBlock(userId, email, blockedBy, blockedAt, unblockedBy, unblockedAt, reason) ==
    [user_id |-> userId, user_email |-> email, blocked_by |-> blockedBy,
     blocked_at |-> blockedAt, unblocked_by |-> unblockedBy,
     unblocked_at |-> unblockedAt, reason |-> reason]

NoBlock == UserBlock(<<>>, Nil, Nil, NoTime, Nil, NoTime, Nil)

\* the rows of user id u: the unique index user_blocks_user_id_idx allows one
BlocksOf(rows, u) == {r \in rows : r.user_id = u}

\* the state of the record of user id u that a statement finds
Found(rows, u) ==
    IF BlocksOf(rows, u) = {} THEN "absent"
    ELSE IF \E r \in BlocksOf(rows, u) : r.unblocked_at = NoTime THEN "active"
    ELSE "unblocked"

\* BlockUserRow that keeps the email of the row it finds
BlockUserRow_KeepEmail(rows, userId, email, blockedBy, reason, t) ==
    IF BlocksOf(rows, userId) = {}
    THEN UserBlock(userId, email, blockedBy, t, Nil, NoTime, reason)
    ELSE LET old == CHOOSE r \in BlocksOf(rows, userId) : TRUE
         IN [old EXCEPT !.blocked_by = blockedBy, !.reason = reason,
                        !.unblocked_by = Nil, !.unblocked_at = NoTime]

\* BlockUserRow that keeps the blocked_by of the row it finds
BlockUserRow_KeepBlockedBy(rows, userId, email, blockedBy, reason, t) ==
    IF BlocksOf(rows, userId) = {}
    THEN UserBlock(userId, email, blockedBy, t, Nil, NoTime, reason)
    ELSE LET old == CHOOSE r \in BlocksOf(rows, userId) : TRUE
         IN [old EXCEPT !.user_email = email, !.reason = reason,
                        !.unblocked_by = Nil, !.unblocked_at = NoTime]

\* query BlockUser: insert, or on a conflict on user_id update the row in place;
\* t is NOW(), the start of the transaction. Returns the row written.
BlockUserRow(rows, userId, email, blockedBy, reason, t) ==
    IF BlocksOf(rows, userId) = {}
    THEN UserBlock(userId, email, blockedBy, t, Nil, NoTime, reason)
    ELSE LET old == CHOOSE r \in BlocksOf(rows, userId) : TRUE
         IN [old EXCEPT !.user_email = email, !.blocked_by = blockedBy,
                        !.reason = reason, !.unblocked_by = Nil,
                        !.unblocked_at = NoTime]

\* UnblockUserRow that matches only a row with unblocked_at NULL
UnblockUserRow_Reattribute(rows, userId, unblockedBy, t) ==
    IF BlocksOf(rows, userId) = {}
    THEN [res |-> "notfound", row |-> NoBlock]
    ELSE LET old == CHOOSE r \in BlocksOf(rows, userId) : TRUE
         IN [res |-> "ok",
             row |-> [old EXCEPT !.blocked_by = unblockedBy,
                                 !.unblocked_by = unblockedBy, !.unblocked_at = t]]

UnblockUserRow_ActiveOnly(rows, userId, unblockedBy, t) ==
    IF {r \in BlocksOf(rows, userId) : r.unblocked_at = NoTime} = {}
    THEN [res |-> "notfound", row |-> NoBlock]
    ELSE LET old == CHOOSE r \in BlocksOf(rows, userId) : TRUE
         IN [res |-> "ok",
             row |-> [old EXCEPT !.unblocked_by = unblockedBy, !.unblocked_at = t]]

\* query UnblockUser: update the row of the user id, whatever its state
UnblockUserRow(rows, userId, unblockedBy, t) ==
    IF BlocksOf(rows, userId) = {}
    THEN [res |-> "notfound", row |-> NoBlock]
    ELSE LET old == CHOOSE r \in BlocksOf(rows, userId) : TRUE
         IN [res |-> "ok",
             row |-> [old EXCEPT !.unblocked_by = unblockedBy, !.unblocked_at = t]]

\* tx.Commit: the row written in the transaction replaces the committed one
CommitRow_Append(rows, row) == rows \cup {row}

CommitRow(rows, row) == (rows \ BlocksOf(rows, row.user_id)) \cup {row}

(***************************************************************************)
(* The identity provider, as the management client uses it                 *)
(***************************************************************************)
\* a call to the provider succeeds, is refused with an API status, or fails
\* without one; applied says whether the user's blocked flag was written
OutcomeOk == [kind |-> "ok", status |-> 0, applied |-> TRUE]
ApiStatuses == {404, 429}
ApiErrors == [kind : {"api"}, status : ApiStatuses, applied : {FALSE}]
OtherError == [kind |-> "other", status |-> 0, applied |-> FALSE]
\* Users.Update went through and UserBlocks.Delete failed after it
LateError == [kind |-> "other", status |-> 0, applied |-> TRUE]

BlockOutcomes == {OutcomeOk, OtherError} \cup ApiErrors
UnblockOutcomes == {OutcomeOk, OtherError, LateError} \cup ApiErrors

\* Management.BlockUser: Users.Update with Blocked = true
IdpBlockUser(users, u, o) ==
    IF o.kind = "ok" THEN [users EXCEPT ![u].blocked = TRUE] ELSE users

\* IdpUnblockUser that leaves the blocked flag as it is
IdpUnblockUser_NoUpdate(users, u, o) == users

\* Management.UnblockUser: Users.Update with Blocked = false, then
\* UserBlocks.Delete
IdpUnblockUser(users, u, o) ==
    IF o.applied THEN [users EXCEPT ![u].blocked = FALSE] ELSE users

\* ProviderErrorStatus that answers 500 to every failure
ProviderErrorStatus_Internal(o) == 500

\* the status the handlers answer with when a provider call failed
ProviderErrorStatus(o) == IF o.kind = "api" THEN o.status ELSE 500

\* validation of BlockUserParams: UserID required,min=1,max=50 and
\* Reason omitzero,min=1,max=255
MinUserID == 1
MaxUserID == 50
MinReason == 1
MaxReason == 255

ValidateBlockUserParams(userId, reason) ==
    /\ Len(userId) >= MinUserID /\ Len(userId) =< MaxUserID
    /\ reason # Nil => (Len(reason) >= MinReason /\ Len(reason) =< MaxReason)

(***************************************************************************)
(* Inputs of the requests                                                  *)
(***************************************************************************)
\* values of s.cfg.App.ShortUrlLength (0: SHORT_URL_LENGTH is not set)
CfgLengths == {0}

\* SHORT_URL_LENGTH as it may be configured: negative, unset, a positive
\* length and one longer than the column urls.id
ConfiguredLengths == {-1, 0, 3, MaxIdLength + 1}

\* a valid custom code, which the generator can produce as well
CodeA8 == Rep("a", defaultLength)
CodeTooShort == <<"c", "o", "d", "e">>
CodeTooLong == Rep("a", MaxShortCode + 1)
CodeBadChar == <<"a", "b", "$", "d", "e">>

GoodCodes == {CodeA8}
BadCodes == {CodeTooShort, CodeTooLong, CodeBadChar}

GenPool(length) == {ShortUrl(length, ch, TRUE).id : ch \in GenChars}
AllCodes == GoodCodes \cup UNION {GenPool(l) : l \in ConfiguredLengths}

\* the users of a bulk delete: the owner of mappings, a user who owns none
\* and the empty id
DeleteUsers == {"u1", "u2", ""}

CreateRequests ==
    [code : {<<>>, CodeA8}, url : {UrlA}, user : {Nil, "u1"}]
      \cup [code : {CodeA8}, url : {UrlB}, user : {"", "u2"}]
      \cup [code : BadCodes, url : {UrlA}, user : {Nil}]
      \cup [code : {<<>>}, url : {UrlFtp}, user : {"u1"}]

LookupCodes == {<<>>} \cup GoodCodes

\* user ids the admin endpoints are called with, and the provider's users
UserT1 == <<"t", "1">>
UserT2 == <<"t", "2">>
Targets == {UserT1, UserT2}
Admins == {"a1", "a2"}
ReasonSpam == <<"s", "p", "a", "m">>

\* email addresses a user may have at the provider (Nil: none), and the users
\* who change theirs
Emails == {"e1", Nil}
EmailUsers == {UserT1}

\* the provider's record of each user: t2 has no email attribute
IdpUsers ==
    [u \in Targets |-> [blocked |-> FALSE,
                        email |-> IF u = UserT1 THEN "e1" ELSE Nil]]

BlockRequests ==
    [target : {UserT1}, reason : {Nil, ReasonSpam}, admin : {"a1"}]
      \cup [target : {UserT2}, reason : {ReasonSpam}, admin : {"a2"}]
      \cup [target : {<<>>}, reason : {Nil}, admin : {"a1"}]
      \cup [target : {UserT1}, reason : {<<>>}, admin : {"a1"}]

UnblockRequests ==
    [target : Targets, reason : {Nil}, admin : {"a2"}]
      \cup [target : {<<>>}, reason : {Nil}, admin : {"a2"}]

\* two admins block the same user, each with a reason of their own
ReasonBot == <<"b", "o", "t">>
RaceRequests ==
    [target : {UserT1}, reason : {ReasonSpam}, admin : {"a1"}]
      \cup [target : {UserT1}, reason : {ReasonBot}, admin : {"a2"}]

(***************************************************************************)
(* State                                                                   *)
(***************************************************************************)
VARIABLES
    cfgLen,      \* s.cfg.App.ShortUrlLength
    urls,        \* rows of table urls
    cache,       \* the key-value cache
    pc,          \* position of each request handler
    req,         \* the request each handler serves
    loc,         \* local variables of each handler
    gh,          \* per-call history: what the call did so far
    last,        \* the call that returned last: request, response, history
    ops,         \* number of requests started
    allocCount,  \* per code: successful createShortURLHandler responses
    delCount,    \* per code: rows removed by deletes
    everHeld,    \* pairs <<code, long url>> ever stored
    okVal,       \* per code: value last returned by a successful resolve,
                 \* cleared when the cache entry is deleted or expires
    okValA,      \* as okVal, kept only while the cache entry holds it
    user_blocks, \* committed rows of table user_blocks
    idp,         \* the identity provider's users
    rowLock,     \* per user id: the transaction holding the row of user_blocks
    now,         \* the store's clock
    failed       \* per user id: some block or unblock call did not succeed

\* the state of the block/unblock saga
sagaVars == <<user_blocks, idp, rowLock, now, failed>>

\* the state of the short-url side
urlVars == <<cfgLen, urls, cache, allocCount, delCount, everHeld, okVal, okValA>>

vars == <<cfgLen, urls, cache, pc, req, loc, gh, last, ops,
          allocCount, delCount, everHeld, okVal, okValA,
          user_blocks, idp, rowLock, now, failed>>

\* user is the authenticated caller; target and reason are the parameters of
\* the admin endpoints
NoReq == [op |-> "none", code |-> <<>>, url |-> NoUrl, user |-> Nil,
          target |-> <<>>, reason |-> Nil]
\* email is updatedUser.Email, written the row of user_blocks written in the
\* open transaction, txTime the start of that transaction
NoLoc == [attempt |-> 0, longUrl |-> NoUrl,
          email |-> Nil, written |-> NoBlock, txTime |-> NoTime,
          deletedIDs |-> {}]
NoResp == [status |-> 0, row |-> NoRow, longUrl |-> NoUrl, block |-> NoBlock,
           deleted |-> 0]
\* the answer of the store read of a resolve: none so far
NoAnswer == [res |-> "none", long_url |-> NoUrl]

\* the failure of the provider call of an operation: none so far
NoProviderError == [kind |-> "none", status |-> 0]
ProviderError(o) ==
    IF o.kind = "ok" THEN NoProviderError ELSE [kind |-> o.kind, status |-> o.status]

\* idpBlock: result of the provider's block call; blockCalls, unblockCalls:
\* provider calls made; wrote: the query changed a row; dbFailed: the query
\* failed; committed: the transaction committed; afterUnblock: the provider's
\* flag right after an unblock call; found: the state of the user's record as
\* the query found it, and foundBy its blocked_by; delRes, delN: the result of a delete query and the
\* rows it affected; insRes: the result of the last insert; allocAt: the
\* successful inserts of the code counted when a delete removed its row or a
\* resolve started; raced: a resolve of the code was in flight during the
\* delete; evicted: the delete's cache eviction succeeded; clean: the resolve
\* started with no row, no cache entry and no other resolve of the code;
\* afterEvict: the resolve started when the call answered last was a delete
\* of its code that evicted the entry, or a resolve that followed such a
\* delete, the code not allocated since: "quiet" when no resolve was in
\* flight during that delete, "raced" when one was; after404: the create
\* inserted its row when the call answered last was a resolve of the code
\* that answered 404, or the resolve started when the call answered last was
\* such a create of its code
NoGh == [inserts |-> 0, collisions |-> 0, added |-> {}, genErr |-> FALSE,
         dbReads |-> 0, dbErr |-> FALSE, cacheErr |-> FALSE,
         expect |-> NoUrl, expectA |-> NoUrl, overlapped |-> FALSE,
         idpBlock |-> "none", blockCalls |-> 0, unblockCalls |-> 0,
         unblockOk |-> FALSE, afterUnblock |-> "none",
         wrote |-> FALSE, dbFailed |-> FALSE, committed |-> FALSE,
         found |-> "unknown", provErr |-> NoProviderError,
         cacheVal |-> NoUrl, cacheWrites |-> 0, cacheWriteErr |-> FALSE,
         storeAns |-> NoAnswer, delRes |-> "none", delN |-> 0,
         insRes |-> "none", allocAt |-> 0, raced |-> FALSE, evicted |-> FALSE,
         clean |-> FALSE, afterEvict |-> "no",
         after404 |-> FALSE, foundBy |-> Nil]
NoCall == [req |-> NoReq, resp |-> NoResp, gh |-> NoGh]

\* the server after construction, whatever length is configured
InitLength ==
    /\ cfgLen \in ConfiguredLengths
    /\ urls = {}
    /\ cache = <<>>
    /\ pc = [p \in Procs |-> "idle"]
    /\ req = [p \in Procs |-> NoReq]
    /\ loc = [p \in Procs |-> NoLoc]
    /\ gh = [p \in Procs |-> NoGh]
    /\ last = NoCall
    /\ ops = 0
    /\ allocCount = [c \in AllCodes |-> 0]
    /\ delCount = [c \in AllCodes |-> 0]
    /\ everHeld = {}
    /\ okVal = [c \in AllCodes |-> NoUrl]
    /\ okValA = [c \in AllCodes |-> NoUrl]
    /\ user_blocks = {}
    /\ idp = IdpUsers
    /\ rowLock = [u \in Targets |-> 0]
    /\ now = 1
    /\ failed = [u \in Targets |-> FALSE]

\* the server after construction with SHORT_URL_LENGTH not set
Init == InitLength /\ cfgLen \in CfgLengths

\* the server after construction on a database that an earlier run left with
\* one mapping created by createShortURLHandler: of a custom code for a
\* user, or of a generated code for an anonymous caller
StoredRows == {UrlRow(CodeA8, UrlA, TRUE, "u1"), UrlRow(CodeA8, UrlA, FALSE, Nil)}

\* the server after construction when the earlier run deleted that mapping
\* and the cache server still holds the entry a resolve had written for it
InitStale ==
    /\ cfgLen \in CfgLengths
    /\ urls = {}
    /\ cache = CacheSetLongUrl(<<>>, CodeA8, UrlA, TRUE)
    /\ pc = [p \in Procs |-> "idle"]
    /\ req = [p \in Procs |-> NoReq]
    /\ loc = [p \in Procs |-> NoLoc]
    /\ gh = [p \in Procs |-> NoGh]
    /\ last = NoCall
    /\ ops = 0
    /\ allocCount = [c \in AllCodes |-> IF c = CodeA8 THEN 1 ELSE 0]
    /\ delCount = [c \in AllCodes |-> IF c = CodeA8 THEN 1 ELSE 0]
    /\ everHeld = {<<CodeA8, UrlA>>}
    /\ okVal = [c \in AllCodes |-> IF c = CodeA8 THEN UrlA ELSE NoUrl]
    /\ okValA = [c \in AllCodes |-> IF c = CodeA8 THEN UrlA ELSE NoUrl]
    /\ user_blocks = {}
    /\ idp = IdpUsers
    /\ rowLock = [u \in Targets |-> 0]
    /\ now = 1
    /\ failed = [u \in Targets |-> FALSE]

InitStored ==
    /\ cfgLen \in CfgLengths
    /\ urls \in {{r} : r \in StoredRows}
    /\ cache = <<>>
    /\ pc = [p \in Procs |-> "idle"]
    /\ req = [p \in Procs |-> NoReq]
    /\ loc = [p \in Procs |-> NoLoc]
    /\ gh = [p \in Procs |-> NoGh]
    /\ last = NoCall
    /\ ops = 0
    /\ allocCount = [c \in AllCodes |-> IF c \in {r.id : r \in StoredRows} THEN 1 ELSE 0]
    /\ delCount = [c \in AllCodes |-> 0]
    /\ everHeld = {<<r.id, r.long_url>> : r \in StoredRows}
    /\ okVal = [c \in AllCodes |-> NoUrl]
    /\ okValA = [c \in AllCodes |-> NoUrl]
    /\ user_blocks = {}
    /\ idp = IdpUsers
    /\ rowLock = [u \in Targets |-> 0]
    /\ now = 1
    /\ failed = [u \in Targets |-> FALSE]

InFlight(p) == pc[p] # "idle"

\* a request goes to the first handler that is not serving one
Free(p) ==
    /\ ~InFlight(p)
    /\ \A q \in Procs : q < p => InFlight(q)
    /\ ops < MaxOps

\* handlers resolving code x that have not yet answered
Resolving(x) == {q \in Procs : InFlight(q) /\ req[q].op = "get" /\ req[q].code = x}

\* the history of a call that starts now
StartGh == [NoGh EXCEPT !.overlapped = \E q \in Procs : InFlight(q)]

Response(status, row, longUrl) ==
    [status |-> status, row |-> row, longUrl |-> longUrl, block |-> NoBlock,
     deleted |-> 0]

\* handler p takes request r and goes to position to: nothing is answered yet
Begin(p, r, g, to) ==
    /\ pc' = [pc EXCEPT ![p] = to]
    /\ req' = [req EXCEPT ![p] = r]
    /\ gh' = [gh EXCEPT ![p] = g]
    /\ UNCHANGED <<loc, last>>

\* the request r is answered before the handler touches anything shared
Reject(r, g, status) ==
    /\ last' = [req |-> r, resp |-> Response(status, NoRow, NoUrl), gh |-> g]
    /\ UNCHANGED <<pc, req, loc, gh>>

\* handler p answers; g is the history of its call, gs the histories of all
Return(p, response, g, gs) ==
    /\ last' = [req |-> req[p], resp |-> response, gh |-> g]
    /\ pc' = [pc EXCEPT ![p] = "idle"]
    /\ req' = [req EXCEPT ![p] = NoReq]
    /\ loc' = [loc EXCEPT ![p] = NoLoc]
    /\ gh' = [gs EXCEPT ![p] = NoGh]

(***************************************************************************)
(* createShortURLHandler                                                   *)
(***************************************************************************)
\* CreateEntry without the guard on the owner
CreateEntry_NoOwnerGuard(code, url, user) ==
    IF ~ValidateCreateDTO(code, url) THEN [pc |-> "done", status |-> 400]
    ELSE IF code # <<>> THEN [pc |-> "custom_insert", status |-> 0]
    ELSE [pc |-> "gen_insert", status |-> 0]

\* bind, validate, then the custom-code guard: where the handler goes next
CreateEntry(code, url, user) ==
    IF ~ValidateCreateDTO(code, url) THEN [pc |-> "done", status |-> 400]
    ELSE IF code # <<>>
         THEN IF user = Nil \/ user = ""
              THEN [pc |-> "done", status |-> 403]
              ELSE [pc |-> "custom_insert", status |-> 0]
         ELSE [pc |-> "gen_insert", status |-> 0]

\* CustomInsertStatus without the duplicate-key branch
CustomInsertStatus_NoDuplicateBranch(res) ==
    CASE res = "ok" -> 201
      [] res = "check" -> 409
      [] OTHER -> 500

\* the response to the single insert of a custom code
CustomInsertStatus(res) ==
    CASE res = "ok" -> 201
      [] res = "dup" -> 409
      [] res = "check" -> 409
      [] OTHER -> 500

\* GenAttempt with the loop bound off by one
GenAttempt_OffByOne(res, attempt) ==
    CASE res = "ok" -> [pc |-> "done", status |-> 201, attempt |-> attempt]
      [] res = "dup" ->
            IF attempt + 1 =< maxRetries
            THEN [pc |-> "gen_insert", status |-> 0, attempt |-> attempt + 1]
            ELSE [pc |-> "done", status |-> 500, attempt |-> attempt + 1]
      [] res = "check" -> [pc |-> "done", status |-> 409, attempt |-> attempt]
      [] OTHER -> [pc |-> "done", status |-> 500, attempt |-> attempt]

\* GenAttempt that retries after every failed insert
GenAttempt_RetryAnyError(res, attempt) ==
    CASE res = "ok" -> [pc |-> "done", status |-> 201, attempt |-> attempt]
      [] OTHER ->
            IF attempt + 1 < maxRetries
            THEN [pc |-> "gen_insert", status |-> 0, attempt |-> attempt + 1]
            ELSE [pc |-> "done", status |-> 500, attempt |-> attempt + 1]

\* one iteration of the retry loop, given the class of the insert's result
GenAttempt(res, attempt) ==
    CASE res = "ok" -> [pc |-> "done", status |-> 201, attempt |-> attempt]
      [] res = "dup" ->
            IF attempt + 1 < maxRetries
            THEN [pc |-> "gen_insert", status |-> 0, attempt |-> attempt + 1]
            ELSE [pc |-> "done", status |-> 500, attempt |-> attempt + 1]
      [] res = "check" -> [pc |-> "done", status |-> 409, attempt |-> attempt]
      [] OTHER -> [pc |-> "done", status |-> 500, attempt |-> attempt]

CreateStart(p, r) ==
    /\ Free(p)
    /\ LET e == CreateEntry(r.code, r.url, r.user)
           rq == [NoReq EXCEPT !.op = "create", !.code = r.code, !.url = r.url,
                            !.user = r.user]
       IN IF e.pc = "done"
          THEN Reject(rq, StartGh, e.status)
          ELSE Begin(p, rq, StartGh, e.pc)
    /\ ops' = ops + 1
    /\ UNCHANGED <<sagaVars, cfgLen, urls, cache, allocCount, delCount, everHeld, okVal, okValA>>

\* the history of handler p after an insert attempt with result r
Inserted(p, r) ==
    [gh[p] EXCEPT !.inserts = @ + 1,
                  !.collisions = @ + (IF r.res = "dup" THEN 1 ELSE 0),
                  !.added = @ \cup (r.rows \ urls),
                  !.insRes = r.res,
                  !.after404 = \E x \in r.rows \ urls :
                                  /\ last.req.op = "get" /\ last.req.code = x.id
                                  /\ last.resp.status = 404]

Held(r) == everHeld \cup {<<x.id, x.long_url>> : x \in r.rows \ urls}

Allocated(status, row) ==
    IF status = 201 THEN [allocCount EXCEPT ![row.id] = @ + 1] ELSE allocCount

CustomInsert(p, dbOk) ==
    /\ pc[p] = "custom_insert"
    /\ LET row == UrlRow(req[p].code, req[p].url, TRUE, req[p].user)
           r == CreateUrl(urls, row, dbOk)
           st == CustomInsertStatus(r.res)
       IN /\ urls' = r.rows
          /\ everHeld' = Held(r)
          /\ allocCount' = Allocated(st, row)
          /\ Return(p, Response(st, IF st = 201 THEN row ELSE NoRow, NoUrl),
                    Inserted(p, r), gh)
    /\ UNCHANGED <<sagaVars, cfgLen, cache, ops, delCount, okVal, okValA>>

GenInsert(p, ch, genOk, dbOk) ==
    /\ pc[p] = "gen_insert"
    /\ LET g == ShortUrl(cfgLen, ch, genOk)
           row == UrlRow(g.id, req[p].url, FALSE, req[p].user)
           r == CreateUrl(urls, row, dbOk)
           a == GenAttempt(r.res, loc[p].attempt)
       IN IF g.err
          THEN /\ Return(p, Response(500, NoRow, NoUrl), [gh[p] EXCEPT !.genErr = TRUE], gh)
               /\ UNCHANGED <<urls, allocCount, everHeld>>
          ELSE /\ urls' = r.rows
               /\ everHeld' = Held(r)
               /\ allocCount' = Allocated(a.status, row)
               /\ IF a.pc = "done"
                  THEN Return(p, Response(a.status, IF a.status = 201 THEN row ELSE NoRow, NoUrl),
                              Inserted(p, r), gh)
                  ELSE /\ loc' = [loc EXCEPT ![p].attempt = a.attempt]
                       /\ gh' = [gh EXCEPT ![p] = Inserted(p, r)]
                       /\ UNCHANGED <<pc, req, last>>
    /\ UNCHANGED <<sagaVars, cfgLen, cache, ops, delCount, okVal, okValA>>

(***************************************************************************)
(* getLongUrlHandler                                                       *)
(***************************************************************************)
\* AfterCacheGet that reads the store also on a hit
AfterCacheGet_AlwaysStore(val) == "db_get"

\* AfterCacheGet that writes the cache again on a hit
AfterCacheGet_Rewrite(val) == IF val # NoUrl THEN "cache_set" ELSE "db_get"

\* AfterCacheGet that answers from the cache whatever it read
AfterCacheGet_NeverStore(val) == "done"

\* after the cache read: answer from the cache or go on to the store
AfterCacheGet(val) == IF val # NoUrl THEN "done" ELSE "db_get"

\* GetStatus that does not tell the missing row from other failures
GetStatus_NoNotFound(res) == IF res = "ok" THEN 200 ELSE 500

\* the response to the store read
GetStatus(res) ==
    CASE res = "ok" -> 200
      [] res = "notfound" -> 404
      [] OTHER -> 500

GetStart(p, code) ==
    /\ Free(p)
    /\ LET rq == [NoReq EXCEPT !.op = "get", !.code = code]
           g == [StartGh EXCEPT !.expect = IF code \in AllCodes THEN okVal[code] ELSE NoUrl,
                                !.expectA = IF code \in AllCodes THEN okValA[code] ELSE NoUrl]
           h == [g EXCEPT !.allocAt = IF code \in AllCodes THEN allocCount[code] ELSE 0,
                          !.clean = /\ \A r \in urls : r.id # code
                                    /\ getUrlKey(code) \notin DOMAIN cache
                                    /\ Resolving(code) = {},
                          !.afterEvict =
                              IF \/ code \notin AllCodes
                                 \/ last.req.code # code
                                 \/ allocCount[code] # last.gh.allocAt
                              THEN "no"
                              ELSE IF /\ last.req.op \in {"delete", "delete_own"}
                                      /\ last.resp.status = 204 /\ last.gh.evicted
                                   THEN IF last.gh.raced THEN "raced" ELSE "quiet"
                                   ELSE IF last.req.op = "get" THEN last.gh.afterEvict
                                   ELSE "no",
                          !.after404 = /\ last.req.op = "create"
                                       /\ last.resp.status = 201
                                       /\ last.resp.row.id = code
                                       /\ last.gh.after404]
       IN IF ValidateCodeParam(code)
          THEN /\ pc' = [pc EXCEPT ![p] = "cache_get"]
               /\ req' = [req EXCEPT ![p] = rq]
               /\ gh' = [q \in Procs |->
                            IF q = p THEN h
                            ELSE IF req[q].op \in {"delete", "delete_own"} /\ req[q].code = code
                                 THEN [gh[q] EXCEPT !.raced = TRUE]
                                 ELSE gh[q]]
               /\ UNCHANGED <<loc, last>>
          ELSE Reject(rq, g, 400)
    /\ ops' = ops + 1
    /\ UNCHANGED <<sagaVars, cfgLen, urls, cache, allocCount, delCount, everHeld, okVal, okValA>>

CacheGet(p, cacheOk) ==
    /\ pc[p] = "cache_get"
    /\ LET r == CacheGetLongUrl(cache, req[p].code, cacheOk)
           g == [gh[p] EXCEPT !.cacheErr = r.err, !.cacheVal = r.val]
       IN IF AfterCacheGet(r.val) = "done"
          THEN /\ Return(p, Response(200, NoRow, r.val), g, gh)
               /\ okVal' = [okVal EXCEPT ![req[p].code] = r.val]
               /\ okValA' = [okValA EXCEPT ![req[p].code] = r.val]
          ELSE /\ pc' = [pc EXCEPT ![p] = AfterCacheGet(r.val)]
               /\ gh' = [gh EXCEPT ![p] = g]
               /\ UNCHANGED <<req, loc, last, okVal, okValA>>
    /\ UNCHANGED <<sagaVars, cfgLen, urls, cache, ops, allocCount, delCount, everHeld>>

\* DbGet that writes the cache also when the store read found no row
DbGet_CacheNotFound(p, dbOk) ==
    /\ pc[p] = "db_get"
    /\ LET r == GetLongUrl(urls, req[p].code, dbOk)
           g == [gh[p] EXCEPT !.dbReads = @ + 1, !.dbErr = (r.res = "other"),
                              !.storeAns = r]
       IN IF GetStatus(r.res) = 200
          THEN /\ pc' = [pc EXCEPT ![p] = "cache_set"]
               /\ loc' = [loc EXCEPT ![p].longUrl = r.long_url]
               /\ gh' = [gh EXCEPT ![p] = g]
               /\ UNCHANGED <<req, last, cache>>
          ELSE /\ cache' = CacheSetLongUrl(cache, req[p].code, NoUrl, TRUE)
               /\ Return(p, Response(GetStatus(r.res), NoRow, NoUrl), g, gh)
    /\ UNCHANGED <<sagaVars, cfgLen, urls, ops, allocCount, delCount, everHeld, okVal, okValA>>

DbGet(p, dbOk) ==
    /\ pc[p] = "db_get"
    /\ LET r == GetLongUrl(urls, req[p].code, dbOk)
           g == [gh[p] EXCEPT !.dbReads = @ + 1, !.dbErr = (r.res = "other"),
                              !.storeAns = r]
       IN IF GetStatus(r.res) = 200
          THEN /\ pc' = [pc EXCEPT ![p] = "cache_set"]
               /\ loc' = [loc EXCEPT ![p].longUrl = r.long_url]
               /\ gh' = [gh EXCEPT ![p] = g]
               /\ UNCHANGED <<req, last>>
          ELSE Return(p, Response(GetStatus(r.res), NoRow, NoUrl), g, gh)
    /\ UNCHANGED <<sagaVars, cfgLen, urls, cache, ops, allocCount, delCount, everHeld, okVal, okValA>>

CacheSet(p, cacheOk) ==
    /\ pc[p] = "cache_set"
    /\ LET x == req[p].code
           v == loc[p].longUrl
           overwritten == cacheOk /\ okValA[x] # v
       IN /\ cache' = CacheSetLongUrl(cache, x, v, cacheOk)
          /\ okVal' = [okVal EXCEPT ![x] = v]
          /\ okValA' = IF cacheOk THEN [okValA EXCEPT ![x] = v] ELSE okValA
          /\ Return(p, Response(200, NoRow, v),
                    [gh[p] EXCEPT !.cacheWrites = @ + 1, !.cacheWriteErr = ~cacheOk],
                    [q \in Procs |->
                        IF q \in Resolving(x) /\ overwritten
                        THEN [gh[q] EXCEPT !.expectA = NoUrl]
                        ELSE gh[q]])
    /\ UNCHANGED <<sagaVars, cfgLen, urls, ops, allocCount, delCount, everHeld>>

(***************************************************************************)
(* deleteURLHandler                                                        *)
(***************************************************************************)
\* DeleteStatus that goes on to the eviction when no row was deleted
DeleteStatus_EvictOnZero(res, n) == IF res # "ok" THEN 500 ELSE 0

\* the response to the store delete, or 0 to go on to the cache eviction
DeleteStatus(res, n) ==
    IF res # "ok" THEN 500
    ELSE IF n = 0 THEN 404
    ELSE 0

DeleteStart(p, code) ==
    /\ Free(p)
    /\ LET rq == [NoReq EXCEPT !.op = "delete", !.code = code]
       IN IF ValidateCodeParam(code)
          THEN Begin(p, rq, [StartGh EXCEPT !.raced = Resolving(code) # {}], "db_delete")
          ELSE Reject(rq, StartGh, 400)
    /\ ops' = ops + 1
    /\ UNCHANGED <<sagaVars, cfgLen, urls, cache, allocCount, delCount, everHeld, okVal, okValA>>

DbDelete(p, dbOk) ==
    /\ pc[p] = "db_delete"
    /\ LET r == DeleteURL(urls, req[p].code, dbOk)
           st == DeleteStatus(r.res, r.n)
           g == [gh[p] EXCEPT !.delRes = r.res, !.delN = r.n, !.dbFailed = ~dbOk,
                              !.allocAt = IF req[p].code \in AllCodes
                                          THEN allocCount[req[p].code] ELSE 0]
       IN /\ urls' = r.rows
          /\ delCount' = IF req[p].code \in AllCodes
                         THEN [delCount EXCEPT ![req[p].code] = @ + Cardinality(urls \ r.rows)]
                         ELSE delCount
          /\ IF st = 0
             THEN /\ pc' = [pc EXCEPT ![p] = "cache_del"]
                  /\ gh' = [gh EXCEPT ![p] = g]
                  /\ UNCHANGED <<req, loc, last>>
             ELSE Return(p, Response(st, NoRow, NoUrl), g, gh)
    /\ UNCHANGED <<sagaVars, cfgLen, cache, ops, allocCount, everHeld, okVal, okValA>>

\* the histories once the cache entry of x is gone: handlers still resolving
\* x are released from what was promised about x
Released(x, gone) ==
    [q \in Procs |->
        IF q \in Resolving(x) /\ gone
        THEN [gh[q] EXCEPT !.expect = NoUrl, !.expectA = NoUrl]
        ELSE gh[q]]

CacheDel(p, cacheOk) ==
    /\ pc[p] = "cache_del"
    /\ cache' = CacheDeleteLongURL(cache, req[p].code, cacheOk)
    /\ okVal' = IF cacheOk THEN [okVal EXCEPT ![req[p].code] = NoUrl] ELSE okVal
    /\ okValA' = IF cacheOk THEN [okValA EXCEPT ![req[p].code] = NoUrl] ELSE okValA
    /\ Return(p, Response(204, NoRow, NoUrl), [gh[p] EXCEPT !.evicted = cacheOk],
              Released(req[p].code, cacheOk))
    /\ UNCHANGED <<sagaVars, cfgLen, urls, ops, allocCount, delCount, everHeld>>

(***************************************************************************)
(* deletShortUrlHandler: the delete of the caller's own short url; after   *)
(* the query it goes on as deleteURLHandler does                           *)
(***************************************************************************)
DeleteOwnStart(p, code, user) ==
    /\ Free(p)
    /\ LET rq == [NoReq EXCEPT !.op = "delete_own", !.code = code, !.user = user]
       IN IF ValidateCodeParam(code)
          THEN Begin(p, rq, [StartGh EXCEPT !.raced = Resolving(code) # {}],
                     "db_delete_own")
          ELSE Reject(rq, StartGh, 400)
    /\ ops' = ops + 1
    /\ UNCHANGED <<sagaVars, cfgLen, urls, cache, allocCount, delCount, everHeld, okVal, okValA>>

DbDeleteOwn(p, dbOk) ==
    /\ pc[p] = "db_delete_own"
    /\ LET r == DeleteUserURL(urls, req[p].code, req[p].user, dbOk)
           st == DeleteStatus(r.res, r.n)
           g == [gh[p] EXCEPT !.delRes = r.res, !.delN = r.n, !.dbFailed = ~dbOk,
                              !.allocAt = IF req[p].code \in AllCodes
                                          THEN allocCount[req[p].code] ELSE 0]
       IN /\ urls' = r.rows
          /\ delCount' = IF req[p].code \in AllCodes
                         THEN [delCount EXCEPT ![req[p].code] = @ + Cardinality(urls \ r.rows)]
                         ELSE delCount
          /\ IF st = 0
             THEN /\ pc' = [pc EXCEPT ![p] = "cache_del"]
                  /\ gh' = [gh EXCEPT ![p] = g]
                  /\ UNCHANGED <<req, loc, last>>
             ELSE Return(p, Response(st, NoRow, NoUrl), g, gh)
    /\ UNCHANGED <<sagaVars, cfgLen, cache, ops, allocCount, everHeld, okVal, okValA>>

(***************************************************************************)
(* deleteUserURLsHandler                                                   *)
(***************************************************************************)
\* validate:"required,min=1,max=50" of DeleteUserURLsParams.UserID; the user
\* ids drawn are the empty one and ids within the length bounds
ValidateUserIDParam(user) == user # ""

DeleteUserURLsResponse(n) == [Response(200, NoRow, NoUrl) EXCEPT !.deleted = n]

DeleteUserStart(p, user) ==
    /\ Free(p)
    /\ LET rq == [NoReq EXCEPT !.op = "delete_user", !.user = user]
       IN IF ValidateUserIDParam(user)
          THEN Begin(p, rq, StartGh, "db_delete_all")
          ELSE Reject(rq, StartGh, 400)
    /\ ops' = ops + 1
    /\ UNCHANGED <<sagaVars, cfgLen, urls, cache, allocCount, delCount, everHeld, okVal, okValA>>

DbDeleteAll(p, dbOk) ==
    /\ pc[p] = "db_delete_all"
    /\ LET r == DeleteAllUserURLs(urls, req[p].user, dbOk)
           g == [gh[p] EXCEPT !.delRes = r.res, !.delN = Cardinality(r.ids),
                              !.dbFailed = ~dbOk]
       IN /\ urls' = r.rows
          /\ delCount' = [c \in AllCodes |->
                            delCount[c] + Cardinality({x \in urls \ r.rows : x.id = c})]
          /\ IF r.res = "ok"
             THEN /\ pc' = [pc EXCEPT ![p] = "cache_del_all"]
                  /\ loc' = [loc EXCEPT ![p].deletedIDs = r.ids]
                  /\ gh' = [gh EXCEPT ![p] = g]
                  /\ UNCHANGED <<req, last>>
             ELSE Return(p, Response(500, NoRow, NoUrl), g, gh)
    /\ UNCHANGED <<sagaVars, cfgLen, cache, ops, allocCount, everHeld, okVal, okValA>>

\* the histories once the cache entries of the codes are gone
ReleasedAll(codes, gone) ==
    [q \in Procs |->
        IF gone /\ \E x \in codes : q \in Resolving(x)
        THEN [gh[q] EXCEPT !.expect = NoUrl, !.expectA = NoUrl]
        ELSE gh[q]]

CacheDelAll(p, cacheOk) ==
    /\ pc[p] = "cache_del_all"
    /\ LET ids == loc[p].deletedIDs
       IN /\ cache' = CacheDeleteLongURLs(cache, ids, cacheOk)
          /\ okVal' = [c \in DOMAIN okVal |->
                         IF cacheOk /\ c \in ids THEN NoUrl ELSE okVal[c]]
          /\ okValA' = [c \in DOMAIN okValA |->
                          IF cacheOk /\ c \in ids THEN NoUrl ELSE okValA[c]]
          /\ Return(p, DeleteUserURLsResponse(Cardinality(ids)),
                    [gh[p] EXCEPT !.evicted = cacheOk], ReleasedAll(ids, cacheOk))
    /\ UNCHANGED <<sagaVars, cfgLen, urls, ops, allocCount, delCount, everHeld>>

(***************************************************************************)
(* Time passes: cache entries age and expire                               *)
(***************************************************************************)
Expired(x) ==
    /\ getUrlKey(x) \in DOMAIN cache
    /\ getUrlKey(x) \notin DOMAIN CacheElapse(cache, TickHours)

Elapse ==
    /\ DOMAIN cache # {}
    /\ cache' = CacheElapse(cache, TickHours)
    /\ okVal' = [x \in AllCodes |-> IF Expired(x) THEN NoUrl ELSE okVal[x]]
    /\ okValA' = [x \in AllCodes |-> IF Expired(x) THEN NoUrl ELSE okValA[x]]
    /\ gh' = [q \in Procs |->
                IF InFlight(q) /\ req[q].op = "get" /\ req[q].code \in AllCodes
                   /\ Expired(req[q].code)
                THEN [gh[q] EXCEPT !.expect = NoUrl, !.expectA = NoUrl]
                ELSE gh[q]]
    /\ UNCHANGED <<sagaVars, cfgLen, urls, pc, req, loc, last, ops, allocCount, delCount, everHeld>>

(***************************************************************************)
(* blockUserHandler and unblockUserHandler                                 *)
(***************************************************************************)
BlockResponse(status, block) ==
    [status |-> status, row |-> NoRow, longUrl |-> NoUrl, block |-> block,
     deleted |-> 0]

\* bind, validate, then s.db.Begin: where the two handlers go next
SagaEntry(target, reason, beginOk, to) ==
    IF ~ValidateBlockUserParams(target, reason) THEN [pc |-> "done", status |-> 400]
    ELSE IF ~beginOk THEN [pc |-> "done", status |-> 500]
    ELSE [pc |-> to, status |-> 0]

\* handler p opens its transaction at the store's current time
BeginTx(p, r, to) ==
    /\ pc' = [pc EXCEPT ![p] = to]
    /\ req' = [req EXCEPT ![p] = r]
    /\ gh' = [gh EXCEPT ![p] = StartGh]
    /\ loc' = [loc EXCEPT ![p].txTime = now]
    /\ UNCHANGED last

\* a call on user id u that did not succeed is remembered
Failing(u, status) ==
    IF status \in {200, 201} \/ u \notin Targets THEN failed
    ELSE [failed EXCEPT ![u] = TRUE]

\* handler p answers; the deferred tx.Rollback drops what was not committed
SagaReturn(p, response, g) ==
    /\ Return(p, response, g, gh)
    /\ rowLock' = [u \in Targets |-> IF rowLock[u] = p THEN 0 ELSE rowLock[u]]
    /\ failed' = Failing(req[p].target, response.status)

SagaStart(p, r, op, beginOk, to) ==
    /\ Free(p)
    /\ LET e == SagaEntry(r.target, r.reason, beginOk, to)
           rq == [NoReq EXCEPT !.op = op, !.target = r.target,
                               !.reason = r.reason, !.user = r.admin]
       IN IF e.pc = "done"
          THEN /\ Reject(rq, StartGh, e.status)
               /\ failed' = Failing(r.target, e.status)
          ELSE /\ BeginTx(p, rq, e.pc)
               /\ UNCHANGED failed
    /\ ops' = ops + 1
    /\ UNCHANGED <<urlVars, user_blocks, idp, rowLock, now>>

BlockStart(p, r, beginOk) == SagaStart(p, r, "block", beginOk, "idp_block")

\* AfterIdpBlock that goes on to the upsert whatever the provider answered
AfterIdpBlock_WriteAnyway(o) == [pc |-> "db_block", status |-> 0]

\* AfterIdpBlock that calls the provider again when it was rate limited
AfterIdpBlock_RetryRateLimit(o) ==
    IF o.kind = "ok" THEN [pc |-> "db_block", status |-> 0]
    ELSE IF o.kind = "api" /\ o.status = 429 THEN [pc |-> "idp_block", status |-> 0]
    ELSE [pc |-> "done", status |-> ProviderErrorStatus(o)]

\* after the provider's block call: go on to the upsert, or answer
AfterIdpBlock(o) ==
    IF o.kind = "ok" THEN [pc |-> "db_block", status |-> 0]
    ELSE [pc |-> "done", status |-> ProviderErrorStatus(o)]

IdpBlock(p, o) ==
    /\ pc[p] = "idp_block"
    /\ idp' = IdpBlockUser(idp, req[p].target, o)
    /\ LET a == AfterIdpBlock(o)
           g == [gh[p] EXCEPT !.blockCalls = @ + 1,
                              !.idpBlock = IF o.kind = "ok" THEN "ok" ELSE "failed",
                              !.provErr = ProviderError(o)]
       IN IF a.pc = "done"
          THEN SagaReturn(p, BlockResponse(a.status, NoBlock), g)
          ELSE /\ pc' = [pc EXCEPT ![p] = a.pc]
               /\ loc' = [loc EXCEPT ![p].email = idp[req[p].target].email]
               /\ gh' = [gh EXCEPT ![p] = g]
               /\ UNCHANGED <<req, last, rowLock, failed>>
    /\ UNCHANGED <<urlVars, ops, user_blocks, now>>

\* after the upsert: commit, or compensate at the provider
AfterBlockUpsert(dbOk) == IF dbOk THEN "commit_block" ELSE "compensate"

\* qtx.BlockUser: the upsert waits for the row of the user id to be free
DbBlock(p, dbOk) ==
    /\ pc[p] = "db_block"
    /\ dbOk => rowLock[req[p].target] = 0
    /\ LET row == BlockUserRow(user_blocks, req[p].target, loc[p].email,
                               req[p].user, req[p].reason, loc[p].txTime)
       IN IF dbOk
          THEN /\ rowLock' = [rowLock EXCEPT ![req[p].target] = p]
               /\ loc' = [loc EXCEPT ![p].written = row]
               /\ gh' = [gh EXCEPT ![p].wrote = TRUE,
                                   ![p].found = Found(user_blocks, req[p].target),
                                   ![p].foundBy =
                                       IF BlocksOf(user_blocks, req[p].target) = {}
                                       THEN Nil
                                       ELSE (CHOOSE r \in BlocksOf(user_blocks, req[p].target) :
                                                 TRUE).blocked_by]
          ELSE /\ gh' = [gh EXCEPT ![p].dbFailed = TRUE]
               /\ UNCHANGED <<loc, rowLock>>
    /\ pc' = [pc EXCEPT ![p] = AfterBlockUpsert(dbOk)]
    /\ UNCHANGED <<urlVars, req, last, ops, user_blocks, idp, now, failed>>

\* the history of a call after an unblock call at the provider
Unblocked(g, users, u, o) ==
    [g EXCEPT !.unblockCalls = @ + 1,
              !.unblockOk = (o.kind = "ok"),
              !.afterUnblock = IF users[u].blocked THEN "blocked" ELSE "unblocked"]

\* _ = s.authManagement.UnblockUser, then 500 whatever it returned
Compensate(p, o) ==
    /\ pc[p] = "compensate"
    /\ idp' = IdpUnblockUser(idp, req[p].target, o)
    /\ SagaReturn(p, BlockResponse(500, NoBlock),
                  Unblocked(gh[p], idp', req[p].target, o))
    /\ UNCHANGED <<urlVars, ops, user_blocks, now>>

\* tx.Commit, which may fail: the handler then answers 500 and rolls back
Commit(p, at, ok, status) ==
    /\ pc[p] = at
    /\ user_blocks' = IF ok THEN CommitRow(user_blocks, loc[p].written) ELSE user_blocks
    /\ SagaReturn(p, IF ok THEN BlockResponse(status, loc[p].written)
                           ELSE BlockResponse(500, NoBlock),
                  [gh[p] EXCEPT !.committed = ok])
    /\ UNCHANGED <<urlVars, ops, idp, now>>

CommitBlock(p, ok) == Commit(p, "commit_block", ok, 201)

UnblockStart(p, r, beginOk) == SagaStart(p, r, "unblock", beginOk, "db_unblock")

\* the response to a failed qtx.UnblockUser
UnblockDbStatus(res) == IF res = "notfound" THEN 404 ELSE 500

\* AfterDbUnblock that goes on to the provider when no row was found
AfterDbUnblock_IgnoreNotFound(res) ==
    IF res = "other" THEN [pc |-> "done", status |-> 500]
    ELSE [pc |-> "idp_unblock", status |-> 0]

\* after the update: go on to the provider, or answer
AfterDbUnblock(res) ==
    IF res = "ok" THEN [pc |-> "idp_unblock", status |-> 0]
    ELSE [pc |-> "done", status |-> UnblockDbStatus(res)]

\* qtx.UnblockUser: the update waits for the row it finds to be free
DbUnblock(p, dbOk) ==
    /\ pc[p] = "db_unblock"
    /\ LET r == UnblockUserRow(user_blocks, req[p].target, req[p].user, loc[p].txTime)
           res == IF dbOk THEN r.res ELSE "other"
           a == AfterDbUnblock(res)
           g == [gh[p] EXCEPT !.wrote = (res = "ok"),
                              !.dbFailed = (res # "ok"),
                              !.found = IF dbOk THEN Found(user_blocks, req[p].target)
                                        ELSE @]
       IN IF a.pc = "done"
          THEN SagaReturn(p, BlockResponse(a.status, NoBlock), g)
          ELSE /\ res = "ok" => rowLock[req[p].target] = 0
               /\ rowLock' = IF res = "ok" THEN [rowLock EXCEPT ![req[p].target] = p]
                             ELSE rowLock
               /\ loc' = [loc EXCEPT ![p].written = r.row]
               /\ gh' = [gh EXCEPT ![p] = g]
               /\ pc' = [pc EXCEPT ![p] = a.pc]
               /\ UNCHANGED <<req, last, failed>>
    /\ UNCHANGED <<urlVars, ops, user_blocks, idp, now>>

\* AfterIdpUnblock that commits whatever the provider answered
AfterIdpUnblock_CommitAnyway(o) == [pc |-> "commit_unblock", status |-> 0]

\* after the provider's unblock call: commit, or answer and roll back
AfterIdpUnblock(o) ==
    IF o.kind = "ok" THEN [pc |-> "commit_unblock", status |-> 0]
    ELSE [pc |-> "done", status |-> ProviderErrorStatus(o)]

IdpUnblock(p, o) ==
    /\ pc[p] = "idp_unblock"
    /\ idp' = IdpUnblockUser(idp, req[p].target, o)
    /\ LET a == AfterIdpUnblock(o)
           g == [Unblocked(gh[p], idp', req[p].target, o)
                    EXCEPT !.provErr = ProviderError(o)]
       IN IF a.pc = "done"
          THEN SagaReturn(p, BlockResponse(a.status, NoBlock), g)
          ELSE /\ pc' = [pc EXCEPT ![p] = a.pc]
               /\ gh' = [gh EXCEPT ![p] = g]
               /\ UNCHANGED <<req, loc, last, rowLock, failed>>
    /\ UNCHANGED <<urlVars, ops, user_blocks, now>>

CommitUnblock(p, ok) == Commit(p, "commit_unblock", ok, 200)

\* a user changes or removes the email address kept at the provider; the
\* handlers read it only in the response to a block call, so the change is
\* taken when such a call on the user is about to be made
ProviderEmailChange(u, e) ==
    /\ \E p \in Procs : pc[p] = "idp_block" /\ req[p].target = u
    /\ idp[u].email # e
    /\ idp' = [idp EXCEPT ![u].email = e]
    /\ UNCHANGED <<urlVars, pc, req, loc, gh, last, ops, user_blocks, rowLock, now, failed>>

\* the store's clock advances; it is read only when a transaction begins
Tick ==
    /\ now < MaxTime
    /\ ops < MaxOps
    /\ now' = now + 1
    /\ UNCHANGED <<urlVars, pc, req, loc, gh, last, ops, user_blocks, idp, rowLock, failed>>

\* what the random source and the store do in one attempt
GenOutcomes ==
    [ch : GenChars, genOk : {TRUE}, dbOk : BOOLEAN]
      \cup [ch : {"a"}, genOk : {FALSE}, dbOk : {TRUE}]

(***************************************************************************)
(* Allocation and deletion of short codes                                  *)
(***************************************************************************)
NextAlloc ==
    \/ \E p \in Procs, r \in CreateRequests : CreateStart(p, r)
    \/ \E p \in Procs, dbOk \in BOOLEAN : CustomInsert(p, dbOk)
    \/ \E p \in Procs, o \in GenOutcomes : GenInsert(p, o.ch, o.genOk, o.dbOk)
    \/ \E p \in Procs, code \in {CodeA8} : DeleteStart(p, code)
    \/ \E p \in Procs, dbOk \in BOOLEAN : DbDelete(p, dbOk)
    \/ \E p \in Procs, cacheOk \in BOOLEAN : CacheDel(p, cacheOk)

SpecAlloc == Init /\ [][NextAlloc]_vars

\* allocation of generated codes under every configured length
NextLength ==
    \/ \E p \in Procs, r \in [code : {<<>>}, url : {UrlA}, user : {Nil, "u1"}] :
          CreateStart(p, r)
    \/ \E p \in Procs, o \in GenOutcomes : GenInsert(p, o.ch, o.genOk, o.dbOk)

SpecLength == InitLength /\ [][NextLength]_vars

\* deletion by code and by owner, of mappings created with and without an
\* owner
DeleteCreateRequests ==
    [code : {<<>>}, url : {UrlA}, user : {Nil, "u1"}]
        \cup [code : {CodeA8}, url : {UrlA}, user : {"u1"}]

NextDelete ==
    \/ \E p \in Procs, r \in DeleteCreateRequests : CreateStart(p, r)
    \/ \E p \in Procs, dbOk \in BOOLEAN : CustomInsert(p, dbOk)
    \/ \E p \in Procs, o \in GenOutcomes : GenInsert(p, o.ch, o.genOk, o.dbOk)
    \/ \E p \in Procs, code \in {CodeA8} : DeleteStart(p, code)
    \/ \E p \in Procs, dbOk \in BOOLEAN : DbDelete(p, dbOk)
    \/ \E p \in Procs, cacheOk \in BOOLEAN : CacheDel(p, cacheOk)
    \/ \E p \in Procs, user \in DeleteUsers : DeleteUserStart(p, user)
    \/ \E p \in Procs, dbOk \in BOOLEAN : DbDeleteAll(p, dbOk)
    \/ \E p \in Procs, cacheOk \in BOOLEAN : CacheDelAll(p, cacheOk)

SpecDelete == Init /\ [][NextDelete]_vars

\* bulk deletion of mappings that resolves have put into the cache
NextBulk ==
    \/ \E p \in Procs, r \in [code : {<<>>}, url : {UrlA}, user : {Nil, "u1"}] :
          CreateStart(p, r)
    \/ \E p \in Procs, ch \in GenChars : GenInsert(p, ch, TRUE, TRUE)
    \/ \E p \in Procs, code \in {CodeA8} : GetStart(p, code)
    \/ \E p \in Procs, cacheOk \in BOOLEAN : CacheGet(p, cacheOk)
    \/ \E p \in Procs, dbOk \in BOOLEAN : DbGet(p, dbOk)
    \/ \E p \in Procs, cacheOk \in BOOLEAN : CacheSet(p, cacheOk)
    \/ \E p \in Procs, user \in Owners : DeleteUserStart(p, user)
    \/ \E p \in Procs, dbOk \in BOOLEAN : DbDeleteAll(p, dbOk)
    \/ \E p \in Procs, cacheOk \in BOOLEAN : CacheDelAll(p, cacheOk)

SpecBulk == Init /\ [][NextBulk]_vars

\* queries.CreateUrl called on the store directly, with any row: what the
\* table accepts whoever the writer is
StoreCreateUrl(row, ok) ==
    /\ ops < MaxOps
    /\ LET r == CreateUrl(urls, row, ok)
       IN /\ urls' = r.rows
          /\ everHeld' = Held(r)
          /\ last' = [req |-> [NoReq EXCEPT !.op = "CreateUrl"],
                      resp |-> Response(0, row, NoUrl),
                      gh |-> [NoGh EXCEPT !.inserts = 1, !.added = r.rows \ urls,
                                          !.insRes = r.res]]
    /\ ops' = ops + 1
    /\ UNCHANGED <<sagaVars, cfgLen, cache, pc, req, loc, gh, allocCount, delCount,
                   okVal, okValA>>

StoreRows ==
    [id : {CodeA8}, long_url : {UrlA}, is_custom : BOOLEAN, user_id : {Nil, "u1"}]

NextStore ==
    \/ NextAlloc
    \/ \E row \in StoreRows, ok \in BOOLEAN : StoreCreateUrl(row, ok)

SpecStore == Init /\ [][NextStore]_vars

(***************************************************************************)
(* Resolution through the cache, with allocations and deletions going on   *)
(***************************************************************************)
ResolveCreateRequests ==
    [code : {CodeA8}, url : {UrlA, UrlB}, user : {"u1"}]
      \cup [code : {<<>>}, url : {UrlB}, user : {Nil}]

NextResolve ==
    \/ \E p \in Procs, r \in ResolveCreateRequests : CreateStart(p, r)
    \/ \E p \in Procs, dbOk \in BOOLEAN : CustomInsert(p, dbOk)
    \/ \E p \in Procs, o \in GenOutcomes : GenInsert(p, o.ch, o.genOk, o.dbOk)
    \/ \E p \in Procs, code \in {<<>>, CodeA8} : GetStart(p, code)
    \/ \E p \in Procs, cacheOk \in BOOLEAN : CacheGet(p, cacheOk)
    \/ \E p \in Procs, dbOk \in BOOLEAN : DbGet(p, dbOk)
    \/ \E p \in Procs, cacheOk \in BOOLEAN : CacheSet(p, cacheOk)
    \/ \E p \in Procs, code \in {CodeA8} : DeleteStart(p, code)
    \/ \E p \in Procs, dbOk \in BOOLEAN : DbDelete(p, dbOk)
    \/ \E p \in Procs, cacheOk \in BOOLEAN : CacheDel(p, cacheOk)
    \/ Elapse

SpecResolve == Init /\ [][NextResolve]_vars

\* the same requests served on a database that already holds a mapping
SpecReuse == InitStored /\ [][NextResolve]_vars

\* the same requests served after a delete whose eviction failed
SpecStale == InitStale /\ [][NextResolve]_vars

\* SpecReuse with time passing and every handler that serves a request going
\* on to its next step: each runs in a goroutine of its own and waits for no
\* other, and the cache server expires its entries by itself
SpecReuseLive ==
    /\ SpecReuse
    /\ WF_vars(Elapse)
    /\ WF_vars(NextResolve /\ \E p \in Procs :
                   InFlight(p) /\ (pc'[p] # pc[p] \/ loc'[p] # loc[p]))

(***************************************************************************)
(* Deletions of a mapping that is stored and resolved through the cache    *)
(***************************************************************************)
NextEvict ==
    \/ \E p \in Procs, code \in {CodeA8} : GetStart(p, code)
    \/ \E p \in Procs, cacheOk \in BOOLEAN : CacheGet(p, cacheOk)
    \/ \E p \in Procs, dbOk \in BOOLEAN : DbGet(p, dbOk)
    \/ \E p \in Procs, cacheOk \in BOOLEAN : CacheSet(p, cacheOk)
    \/ \E p \in Procs, code \in {CodeA8} : DeleteStart(p, code)
    \/ \E p \in Procs, dbOk \in BOOLEAN : DbDelete(p, dbOk)
    \/ \E p \in Procs, cacheOk \in BOOLEAN : CacheDel(p, cacheOk)
    \/ \E p \in Procs, user \in Owners : DeleteUserStart(p, user)
    \/ \E p \in Procs, dbOk \in BOOLEAN : DbDeleteAll(p, dbOk)
    \/ \E p \in Procs, cacheOk \in BOOLEAN : CacheDelAll(p, cacheOk)
    \/ \E p \in Procs, code \in {CodeA8}, user \in Owners : DeleteOwnStart(p, code, user)
    \/ \E p \in Procs, dbOk \in BOOLEAN : DbDeleteOwn(p, dbOk)
    \/ Elapse

SpecEvict == InitStored /\ [][NextEvict]_vars

(***************************************************************************)
(* Blocking and unblocking users at the provider and in the store          *)
(***************************************************************************)
NextBlock ==
    \/ \E p \in Procs, r \in BlockRequests, ok \in BOOLEAN : BlockStart(p, r, ok)
    \/ \E p \in Procs, o \in BlockOutcomes : IdpBlock(p, o)
    \/ \E p \in Procs, dbOk \in BOOLEAN : DbBlock(p, dbOk)
    \/ \E p \in Procs, o \in UnblockOutcomes : Compensate(p, o)
    \/ \E p \in Procs, ok \in BOOLEAN : CommitBlock(p, ok)
    \/ \E p \in Procs, r \in UnblockRequests, ok \in BOOLEAN : UnblockStart(p, r, ok)
    \/ \E p \in Procs, dbOk \in BOOLEAN : DbUnblock(p, dbOk)
    \/ \E p \in Procs, o \in UnblockOutcomes : IdpUnblock(p, o)
    \/ \E p \in Procs, ok \in BOOLEAN : CommitUnblock(p, ok)
    \/ \E u \in EmailUsers, e \in Emails : ProviderEmailChange(u, e)
    \/ Tick

SpecBlock == Init /\ [][NextBlock]_vars

\* blockUserHandler called by two admins for one user
NextRace ==
    \/ \E p \in Procs, r \in RaceRequests, ok \in BOOLEAN : BlockStart(p, r, ok)
    \/ \E p \in Procs, o \in BlockOutcomes : IdpBlock(p, o)
    \/ \E p \in Procs, dbOk \in BOOLEAN : DbBlock(p, dbOk)
    \/ \E p \in Procs, o \in UnblockOutcomes : Compensate(p, o)
    \/ \E p \in Procs, ok \in BOOLEAN : CommitBlock(p, ok)
    \/ \E u \in EmailUsers, e \in Emails : ProviderEmailChange(u, e)
    \/ Tick

SpecRace == Init /\ [][NextRace]_vars

(***************************************************************************)
(* Properties of allocation (checked under SpecAlloc)                      *)
(***************************************************************************)
\* the call that returned last served a request of kind op
Done(op) == last.req.op = op

Stored(c) == {r \in urls : r.id = c}

NoOwner(user) == user = Nil \/ user = ""

\* C1 (as stated): over a whole run no two successful createShortURLHandler
\* responses carry the same code.
C1_NoCodeReturnedTwice == \A c \in AllCodes : allocCount[c] =< 1

\* C1 (amended): the store never holds two mappings with the same code, and
\* the successful allocations of a code exceed the deletions of its mapping
\* by exactly the number of rows stored for it (0 or 1): two successful
\* results share a code only if the earlier mapping was deleted in between;
\* of two allocations racing for a code exactly one insert wins.
C1_UniqueWhileStored ==
    /\ \A r1 \in urls, r2 \in urls : r1.id = r2.id => r1 = r2
    /\ \A c \in AllCodes :
          /\ Cardinality(Stored(c)) =< 1
          /\ allocCount[c] - delCount[c] = Cardinality(Stored(c))

\* two calls were in flight together for the same code; the one that
\* inserted second collided and the other one's row is stored
C1_Witness ==
    /\ ops = 2
    /\ Done("create") /\ last.req.code = CodeA8 /\ last.gh.overlapped
    /\ last.gh.inserts = 1 /\ last.gh.collisions = 1 /\ last.resp.status = 409
    /\ allocCount[CodeA8] = 1 /\ Cardinality(Stored(CodeA8)) = 1
    /\ \A p \in Procs : ~InFlight(p)

\* C5 (as stated): a custom code without an owner is always answered 403,
\* whether or not the code is valid.
C5_AlwaysForbidden ==
    Done("create") /\ last.req.code # <<>> /\ NoOwner(last.req.user)
        => last.resp.status = 403

\* C5 (amended): a custom code without an owner is answered 403 when the
\* request passes validation (code of 5 to 16 characters of the alphabet,
\* valid URL) and 400 when it does not, whatever the store holds; no insert
\* is attempted in either case.
C5_ForbiddenWhenValid ==
    Done("create") /\ last.req.code # <<>> /\ NoOwner(last.req.user)
        => /\ last.resp.status =
                (IF ValidateCreateDTO(last.req.code, last.req.url) THEN 403 ELSE 400)
           /\ last.gh.inserts = 0
           /\ last.gh.added = {}

\* an anonymous caller asked for a valid code that is already taken
C5_Witness ==
    /\ Done("create") /\ last.req.code = CodeA8 /\ last.req.user = Nil
    /\ last.resp.status = 403
    /\ Stored(CodeA8) # {}

\* every call, in flight or returned, with its request and history
Calls ==
    {[req |-> req[p], gh |-> gh[p], returned |-> FALSE] : p \in {q \in Procs : InFlight(q)}}
      \cup {[req |-> last.req, gh |-> last.gh, returned |-> TRUE]}

\* C6: no call makes more than 3 insert attempts, and a generated-code call
\* all of whose attempts collide on the primary key makes exactly 3 of them
\* and answers 500.
C6_BoundedRetry ==
    /\ \A c \in Calls : c.req.op = "create" => c.gh.inserts =< maxRetries
    /\ (/\ Done("create") /\ last.req.code = <<>>
        /\ ~last.gh.genErr
        /\ last.gh.inserts > 0
        /\ last.gh.collisions = last.gh.inserts)
       => (last.gh.inserts = maxRetries /\ last.resp.status = 500)

\* a generated-code call collided three times
C6_Witness ==
    /\ Done("create") /\ last.req.code = <<>>
    /\ last.gh.collisions = 3 /\ last.resp.status = 500

\* C7: a custom-code call makes exactly one insert attempt once it is past
\* validation and the owner guard, never enters the retry loop, and answers
\* 409 without adding a row when the code is taken.
C7_CustomNoRetry ==
    /\ \A p \in Procs : req[p].op = "create" /\ req[p].code # <<>>
          => pc[p] = "custom_insert" /\ gh[p].inserts = 0
    /\ Done("create") /\ last.req.code # <<>> =>
          /\ last.gh.inserts = (IF last.resp.status \in {400, 403} THEN 0 ELSE 1)
          /\ (last.gh.collisions = 1 => last.resp.status = 409 /\ last.gh.added = {})

\* a custom code collided with a mapping of another owner
C7_Witness ==
    /\ Done("create") /\ last.req.code = CodeA8 /\ last.resp.status = 409
    /\ last.gh.collisions = 1
    /\ \E r \in Stored(CodeA8) : r.user_id # last.req.user

\* C8: a call that answers 201 added exactly one row, the one it returns; a
\* call that answers anything else added none, collided retries included;
\* a call in flight has added nothing yet.
C8_OneRowOrNone ==
    /\ \A p \in Procs : req[p].op = "create" => gh[p].added = {}
    /\ Done("create") =>
          IF last.resp.status = 201
          THEN last.gh.added = {last.resp.row} /\ last.resp.row # NoRow
          ELSE last.gh.added = {} /\ last.resp.row = NoRow

\* a generated-code call succeeded after a collision
C8_Witness ==
    /\ Done("create") /\ last.req.code = <<>>
    /\ last.gh.collisions > 0 /\ last.resp.status = 201
    /\ last.gh.added = {last.resp.row}
    /\ last.resp.row \in urls

(***************************************************************************)
(* Properties of resolution (checked under SpecResolve)                    *)
(***************************************************************************)
\* C3 (as stated): once a resolve of x has answered 200, every resolve of x
\* that starts afterwards answers the same value without reading the store,
\* until the cache entry of x is deleted or expires.
C3_AlwaysHitAfterSuccess ==
    Done("get") /\ last.gh.expect # NoUrl
        => /\ last.resp.status = 200
           /\ last.resp.longUrl = last.gh.expect
           /\ last.gh.dbReads = 0

\* C3 (amended): once a resolve of x has answered 200 from the cache entry
\* or after writing it (its cache write did not fail), every resolve of x
\* that starts afterwards and whose cache read does not fail answers the same
\* value without reading the store, until the cache entry of x is deleted,
\* expires or is overwritten with another value by a concurrent resolve.
C3_HitWhileEntryHolds ==
    /\ \A x \in AllCodes :
          okValA[x] # NoUrl =>
             /\ getUrlKey(x) \in DOMAIN cache
             /\ cache[getUrlKey(x)].val = okValA[x]
    /\ \A p \in Procs :
          gh[p].expectA # NoUrl /\ ~gh[p].cacheErr => pc[p] = "cache_get"
    /\ Done("get") /\ last.gh.expectA # NoUrl /\ ~last.gh.cacheErr
          => /\ last.resp.status = 200
             /\ last.resp.longUrl = last.gh.expectA
             /\ last.gh.dbReads = 0

\* a second resolve was answered from the entry the first one wrote
C3_Witness ==
    /\ Done("get") /\ last.gh.expectA # NoUrl
    /\ last.resp.status = 200 /\ last.resp.longUrl = last.gh.expectA
    /\ last.gh.dbReads = 0
    /\ getUrlKey(last.req.code) \in DOMAIN cache
    /\ cache[getUrlKey(last.req.code)].val = last.resp.longUrl

\* C4: a resolve answers 200 only with a long URL that the store holds or
\* held for that code; failing cache reads and writes never produce another
\* outcome: 404 comes from a store read that found no row and 500 from a
\* store read that failed.
C4_OnlyStoredValues ==
    Done("get") =>
        /\ last.resp.status \in {200, 400, 404, 500}
        /\ (last.resp.status = 200 => <<last.req.code, last.resp.longUrl>> \in everHeld)
        /\ (last.resp.status = 400 => ~ValidateCodeParam(last.req.code))
        /\ (last.resp.status = 404 => last.gh.dbReads = 1 /\ ~last.gh.dbErr)
        /\ (last.resp.status = 500 => last.gh.dbReads = 1 /\ last.gh.dbErr)

\* a resolve that read the store while a delete of the code was in flight
\* answers the mapping that is no longer stored
C4_Witness ==
    /\ Done("get") /\ last.resp.status = 200 /\ last.gh.dbReads = 1
    /\ Stored(last.req.code) = {}
    /\ delCount[last.req.code] = 1
    /\ \E p \in Procs : pc[p] = "cache_del" /\ req[p].code = last.req.code

(***************************************************************************)
(* Properties of the block/unblock saga (checked under SpecBlock)          *)
(***************************************************************************)
\* handlers serving a block or unblock call on user id u
Serving(u) == {p \in Procs : InFlight(p) /\ req[p].target = u}

\* the store holds a record of u with unblocked_at NULL
ActiveBlock(u) == \E r \in BlocksOf(user_blocks, u) : r.unblocked_at = NoTime

\* C2: for every user, whenever no block or unblock call on the user is in
\* flight and every completed call on the user returned success, the user is
\* blocked at the provider exactly when the store holds a record of the user
\* with unblocked_at NULL.
C2_SystemsAgree ==
    \A u \in Targets :
        (Serving(u) = {} /\ ~failed[u]) => (idp[u].blocked <=> ActiveBlock(u))

\* C9: blockUserHandler calls the provider's block before it writes to
\* user_blocks: until that call has succeeded the handler has written nothing
\* and holds no row, and a call whose provider call failed wrote nothing,
\* committed nothing, made no unblock call and did not answer 201.
C9_ProviderBeforeWrite ==
    /\ \A p \in Procs :
          /\ pc[p] \in {"db_block", "compensate", "commit_block"} =>
                (gh[p].idpBlock = "ok" /\ gh[p].blockCalls = 1)
          /\ pc[p] = "idp_block" =>
                (~gh[p].wrote /\ loc[p].written = NoBlock
                 /\ rowLock[req[p].target] # p /\ gh[p].unblockCalls = 0)
    /\ (Done("block") /\ last.gh.idpBlock = "failed") =>
          /\ ~last.gh.wrote /\ ~last.gh.dbFailed /\ ~last.gh.committed
          /\ last.gh.unblockCalls = 0
          /\ last.gh.blockCalls = 1
          /\ last.resp.status \notin {200, 201}
          /\ last.resp.block = NoBlock

\* a block call failed at the provider while the store holds a record of the user
C9_Witness ==
    /\ Done("block")
    /\ last.gh.idpBlock = "failed"
    /\ last.resp.status = 429
    /\ ActiveBlock(last.req.target)

\* C10: when the provider's block succeeded and the upsert then failed,
\* blockUserHandler calls the provider's unblock exactly once, writes and
\* commits nothing, and answers 500 whether or not that call succeeded; when it
\* succeeded the user is not blocked at the provider as the call returns.
C10_CompensateOnce ==
    /\ \A p \in Procs :
          pc[p] = "compensate" =>
              /\ gh[p].idpBlock = "ok" /\ gh[p].dbFailed
              /\ gh[p].unblockCalls = 0
              /\ loc[p].written = NoBlock /\ rowLock[req[p].target] # p
    /\ (Done("block") /\ last.gh.idpBlock = "ok" /\ last.gh.dbFailed) =>
          /\ last.gh.unblockCalls = 1
          /\ ~last.gh.wrote /\ ~last.gh.committed
          /\ last.resp.status = 500
          /\ last.resp.block = NoBlock
          /\ last.gh.unblockOk => last.gh.afterUnblock = "unblocked"

\* the upsert failed after the provider's block, and the compensation succeeded
C10_Witness ==
    /\ Done("block")
    /\ last.gh.idpBlock = "ok" /\ last.gh.dbFailed
    /\ last.gh.unblockOk
    /\ ~idp[last.req.target].blocked

\* C11: when the provider's block and the upsert succeeded and tx.Commit
\* fails, blockUserHandler calls the provider's unblock once before it
\* answers 500.
C11_CompensateOnCommitFailure ==
    (Done("block") /\ last.gh.idpBlock = "ok" /\ last.gh.wrote /\ ~last.gh.committed)
        => (last.resp.status = 500 /\ last.gh.unblockCalls = 1)

\* C12: unblockUserHandler updates the record of user_blocks before any
\* provider call: a call that has not run the update has made no provider call,
\* a call at the provider or at the commit has written the row, and a call
\* whose update failed, in particular because the user has no record (404),
\* made no provider call and committed nothing.
C12_UpdateBeforeProvider ==
    /\ \A p \in Procs :
          /\ pc[p] = "db_unblock" => (gh[p].unblockCalls = 0 /\ ~gh[p].wrote)
          /\ pc[p] \in {"idp_unblock", "commit_unblock"} =>
                (gh[p].wrote /\ rowLock[req[p].target] = p
                 /\ loc[p].written.user_id = req[p].target)
    /\ Done("unblock") =>
          /\ last.gh.blockCalls = 0
          /\ last.gh.dbFailed =>
                /\ last.gh.unblockCalls = 0
                /\ ~last.gh.wrote /\ ~last.gh.committed
                /\ last.resp.block = NoBlock
                /\ last.resp.status = (IF last.gh.found = "absent" THEN 404 ELSE 500)

\* an unblock of a user without a record was answered 404 while another user
\* is blocked in the store and at the provider
C12_Witness ==
    /\ Done("unblock") /\ last.gh.dbFailed /\ last.gh.found = "absent"
    /\ last.resp.status = 404
    /\ \E u \in Targets : ActiveBlock(u) /\ idp[u].blocked

\* the call that returned last is an unblock whose update succeeded and whose
\* provider call failed
UnblockFailedAtProvider ==
    /\ Done("unblock") /\ last.gh.wrote
    /\ last.gh.unblockCalls = 1 /\ ~last.gh.unblockOk

\* C13 (as stated): when the update of unblockUserHandler succeeded and the
\* provider's unblock failed, the transaction is committed all the same.
C13_CommittedDespiteProvider == UnblockFailedAtProvider => last.gh.committed

\* C13 (amended): when the update of unblockUserHandler succeeded and the
\* provider's unblock failed, the transaction is rolled back: nothing is
\* committed, no record is returned and the answer is the provider's error.
C13_RolledBackOnProviderFailure ==
    UnblockFailedAtProvider =>
        /\ ~last.gh.committed
        /\ last.resp.block = NoBlock
        /\ last.resp.status \notin {200, 201}
        /\ \A p \in Procs : rowLock[last.req.target] = p => InFlight(p)

\* the provider refused the unblock and the record of the user is still active
C13_Witness ==
    /\ UnblockFailedAtProvider
    /\ last.resp.status = 429
    /\ last.gh.found = "active"
    /\ ActiveBlock(last.req.target)
    /\ idp[last.req.target].blocked

\* C14 (as stated): an unblock of a user whose record is already unblocked is
\* answered 404 without a provider call and without a write.
C14_UnblockedIsNotFound ==
    (Done("unblock") /\ last.gh.found = "unblocked") =>
        /\ last.resp.status = 404
        /\ last.gh.unblockCalls = 0
        /\ ~last.gh.wrote /\ ~last.gh.committed

\* C14 (amended): only a user without a record is answered 404 from the
\* store, with no provider call and nothing committed; an unblock of a user
\* whose record is already unblocked runs like that of a blocked user: the
\* update matches the record, the provider's unblock is called once, and when
\* the call succeeds the record returned carries the unblock of this call.
C14_OnlyAbsentIsNotFound ==
    Done("unblock") =>
        /\ last.gh.found = "absent" =>
              /\ last.resp.status = 404 /\ last.gh.dbFailed
              /\ last.gh.unblockCalls = 0 /\ ~last.gh.committed
        /\ last.gh.found \in {"active", "unblocked"} =>
              /\ last.gh.wrote /\ ~last.gh.dbFailed
              /\ last.gh.unblockCalls = 1
              /\ last.gh.committed <=> last.resp.status = 200
              /\ last.gh.committed =>
                    /\ last.resp.block.user_id = last.req.target
                    /\ last.resp.block.unblocked_by = last.req.user
                    /\ last.resp.block.unblocked_at # NoTime

\* a second unblock of the same user succeeded and reached the provider
C14_Witness ==
    /\ Done("unblock") /\ last.gh.found = "unblocked"
    /\ last.resp.status = 200 /\ last.gh.committed
    /\ last.gh.unblockCalls = 1
    /\ last.resp.block \in user_blocks

\* handler p answers 201 in this step
BlockSucceeds(p) ==
    /\ pc[p] = "commit_block" /\ pc'[p] = "idle"
    /\ last'.resp.status = 201

\* C15: a block call that answers 201, whether it found no record, an active
\* one or an unblocked one, leaves exactly one record of the user: the one it
\* returns, with blocked_by the acting admin, reason and user_email those of
\* this call (NULL included) and unblocked_by and unblocked_at NULL.
C15_BlockOverwrites ==
    [][\A p \in Procs :
          BlockSucceeds(p) =>
              LET u == req[p].target
                  row == last'.resp.block
              IN /\ BlocksOf(user_blocks', u) = {row}
                 /\ user_blocks' \ BlocksOf(user_blocks', u)
                       = user_blocks \ BlocksOf(user_blocks, u)
                 /\ gh[p].found \in {"absent", "active", "unblocked"}
                 /\ row.user_id = u
                 /\ row.blocked_by = req[p].user
                 /\ row.reason = req[p].reason
                 /\ row.user_email = loc[p].email
                 /\ row.unblocked_by = Nil
                 /\ row.unblocked_at = NoTime]_vars

\* a block of an already blocked user succeeded and replaced the email of the
\* record by none
C15_Witness ==
    /\ Done("block") /\ last.resp.status = 201
    /\ last.gh.found = "active"
    /\ last.resp.block.user_email = Nil
    /\ last.req.target \in EmailUsers
    /\ BlocksOf(user_blocks, last.req.target) = {last.resp.block}

\* C16: a block call whose provider block failed, and an unblock call whose
\* provider unblock failed, answer the status of the provider's API error when
\* the failure is one, and 500 when it is not.
C16_ProviderStatusVerbatim ==
    (Done("block") \/ Done("unblock")) =>
        /\ last.gh.provErr.kind = "api" =>
               /\ last.resp.status = last.gh.provErr.status
               /\ last.resp.status \in ApiStatuses
        /\ last.gh.provErr.kind = "other" => last.resp.status = 500

\* an unblock call answered the provider's 404 for a record that the store
\* had found and updated
C16_Witness ==
    /\ Done("unblock") /\ last.gh.provErr = [kind |-> "api", status |-> 404]
    /\ last.gh.unblockCalls = 1 /\ last.gh.found # "absent"
    /\ last.resp.status = 404

(***************************************************************************)
(* Properties of the cache's failures (checked under SpecResolve)          *)
(***************************************************************************)
\* the response the store's answer alone calls for
StoreAnswerStatus(a) ==
    IF a.res = "ok" THEN 200 ELSE IF a.res = "notfound" THEN 404 ELSE 500

\* C17: a resolve whose cache read failed reads the store once and answers
\* what the store answered: 200 with the stored long URL, 404 for no row, 500
\* for a failed read; a resolve that read the store answers the same whether
\* its cache write failed or not.
C17_CacheNeverFails ==
    Done("get") =>
        /\ last.gh.cacheErr => last.gh.dbReads = 1
        /\ last.gh.dbReads = 1 =>
              /\ last.resp.status = StoreAnswerStatus(last.gh.storeAns)
              /\ last.resp.longUrl = last.gh.storeAns.long_url
              /\ last.gh.cacheWrites = (IF last.gh.storeAns.res = "ok" THEN 1 ELSE 0)
        /\ last.gh.cacheWriteErr => last.resp.status = 200

\* a resolve whose cache read and cache write both failed answered the
\* stored long URL
C17_Witness ==
    /\ Done("get") /\ last.gh.cacheErr /\ last.gh.cacheWriteErr
    /\ last.resp.status = 200
    /\ last.resp.longUrl = last.gh.storeAns.long_url
    /\ \E r \in urls : r.id = last.req.code /\ r.long_url = last.resp.longUrl

\* C18: a resolve whose cache read returned a non-empty value answers 200
\* with that value and makes no store read and no cache write.
C18_HitTouchesNothing ==
    Done("get") /\ last.gh.cacheVal # NoUrl =>
        /\ last.resp.status = 200
        /\ last.resp.longUrl = last.gh.cacheVal
        /\ last.gh.dbReads = 0
        /\ last.gh.storeAns = NoAnswer
        /\ last.gh.cacheWrites = 0

\* a resolve was answered from the cache entry of a mapping that the store
\* holds, with no store read and no cache write of its own
C18_Witness ==
    /\ Done("get") /\ last.gh.cacheVal # NoUrl /\ ~last.gh.cacheErr
    /\ last.resp.status = 200 /\ last.resp.longUrl = last.gh.cacheVal
    /\ last.gh.dbReads = 0 /\ last.gh.cacheWrites = 0
    /\ \E r \in urls : r.id = last.req.code /\ r.long_url = last.gh.cacheVal

\* no mapping of the code was ever stored
NeverAllocated(code) == \A h \in everHeld : h[1] # code

\* C19: a resolve that missed the cache and found no row of the code answers
\* 404, and one whose store read failed otherwise answers 500; a resolve of
\* a code that was never allocated is never answered from the cache and
\* answers 404 whenever its store read does not fail.
C19_UnknownCodeNotFound ==
    Done("get") =>
        /\ last.gh.storeAns.res = "notfound" =>
              /\ last.gh.cacheVal = NoUrl
              /\ last.resp.status = 404 /\ last.resp.longUrl = NoUrl
        /\ last.gh.storeAns.res = "other" =>
              /\ last.gh.dbErr
              /\ last.resp.status = 500 /\ last.resp.longUrl = NoUrl
        /\ ValidateCodeParam(last.req.code) /\ NeverAllocated(last.req.code) =>
              /\ last.gh.cacheVal = NoUrl
              /\ last.gh.dbReads = 1
              /\ last.gh.storeAns.res \in {"notfound", "other"}
              /\ last.resp.status = (IF last.gh.dbErr THEN 500 ELSE 404)

\* a resolve of a code that was never allocated answered 404 after its cache
\* read had failed
C19_Witness ==
    /\ Done("get") /\ ValidateCodeParam(last.req.code)
    /\ NeverAllocated(last.req.code)
    /\ last.gh.cacheErr /\ last.gh.storeAns.res = "notfound"
    /\ last.resp.status = 404

(***************************************************************************)
(* Properties of deletion (checked under SpecDelete)                       *)
(***************************************************************************)
\* the history of handler p's call after the step
HistoryAfter(p) == IF pc'[p] = "idle" THEN last'.gh ELSE gh'[p]

OwnedBy(user) == {r \in urls : r.user_id = user}

\* C20: the delete query of a code with no row and the bulk delete query of
\* a user with no rows affect zero rows, change nothing and fail only when
\* the storage itself fails; a delete query that does not fail affects
\* exactly the rows there are, one at most for a code, and leaves none, so
\* that the next one affects zero.
C20_DeleteIdempotent ==
    [][\A p \in Procs :
          /\ (pc[p] = "db_delete" /\ pc'[p] # "db_delete") =>
                LET had == Stored(req[p].code)
                    g == HistoryAfter(p)
                IN /\ g.delRes = (IF g.dbFailed THEN "other" ELSE "ok")
                   /\ had = {} => g.delN = 0 /\ urls' = urls
                   /\ ~g.dbFailed =>
                         /\ g.delN = Cardinality(had) /\ g.delN =< 1
                         /\ urls' = urls \ had
          /\ (pc[p] = "db_delete_all" /\ pc'[p] # "db_delete_all") =>
                LET had == OwnedBy(req[p].user)
                    g == HistoryAfter(p)
                IN /\ g.delRes = (IF g.dbFailed THEN "other" ELSE "ok")
                   /\ had = {} => g.delN = 0 /\ urls' = urls
                   /\ ~g.dbFailed =>
                         /\ g.delN = Cardinality(had)
                         /\ urls' = urls \ had]_vars

\* the second delete of a code affected no row and did not fail, after the
\* first had affected one
C20_Witness ==
    /\ Done("delete") /\ last.gh.delRes = "ok" /\ last.gh.delN = 0
    /\ delCount[last.req.code] = 1
    /\ Stored(last.req.code) = {}
    /\ last.resp.status = 404

(***************************************************************************)
(* Properties of the table urls (checked under SpecStore)                  *)
(***************************************************************************)
\* C21: every stored row with is_custom = true has a user_id that is not
\* NULL; queries.CreateUrl of a row with is_custom = true and no user_id adds
\* no row; createShortURLHandler reaches its insert of a custom code only
\* with an owner, and none of its inserts is refused for the constraint.
C21_CustomRequiresOwner ==
    /\ \A r \in urls : r.is_custom => r.user_id # Nil
    /\ last.req.op = "CreateUrl" /\ ~custom_urls_require_user(last.resp.row)
          => /\ last.gh.insRes \in {"check", "other"}
             /\ last.gh.added = {} /\ last.resp.row \notin urls
    /\ \A p \in Procs : pc[p] = "custom_insert" => req[p].user # Nil
    /\ Done("create") /\ last.resp.status = 409
          => last.gh.collisions = last.gh.inserts

\* the store refused a custom row without an owner for the constraint, the
\* code of the row being free
C21_Witness ==
    /\ last.req.op = "CreateUrl"
    /\ last.resp.row.is_custom /\ last.resp.row.user_id = Nil
    /\ last.gh.insRes = "check" /\ last.gh.added = {}
    /\ \A r \in urls : r.id # last.resp.row.id

\* C22: on the generated path the handler goes round its loop again only
\* after collisions; an insert that failed for another reason is its last:
\* the call answers 500 and has added no row.
C22_AbortOnStorageError ==
    /\ \A p \in Procs :
          pc[p] = "gen_insert" =>
              /\ gh[p].inserts = gh[p].collisions
              /\ gh[p].insRes \in {"none", "dup"}
              /\ gh[p].added = {}
    /\ Done("create") /\ last.req.code = <<>> /\ last.gh.insRes = "other" =>
          /\ last.resp.status = 500
          /\ last.resp.row = NoRow
          /\ last.gh.inserts = last.gh.collisions + 1
          /\ last.gh.inserts =< maxRetries
          /\ last.gh.added = {}

\* a call whose second insert failed with a storage error, after a
\* collision, answered 500 without a third attempt
C22_Witness ==
    /\ Done("create") /\ last.req.code = <<>> /\ last.gh.insRes = "other"
    /\ last.gh.collisions = 1 /\ last.gh.inserts = 2
    /\ last.resp.status = 500
    /\ last.gh.added = {}

\* C23: a block call makes at most one block call and at most one unblock
\* call at the provider, the latter only to compensate a failed upsert; an
\* unblock call makes at most one unblock call and no block call; a call
\* that the provider refused with 429 answers 429 after that single call.
C23_NoProviderRetry ==
    /\ \A p \in Procs :
          /\ req[p].op = "block" =>
                gh[p].blockCalls =< 1 /\ gh[p].unblockCalls = 0
          /\ req[p].op = "unblock" =>
                gh[p].blockCalls = 0 /\ gh[p].unblockCalls =< 1
    /\ Done("block") =>
          /\ last.gh.blockCalls =< 1 /\ last.gh.unblockCalls =< 1
          /\ last.gh.unblockCalls = 1 =>
                last.gh.idpBlock = "ok" /\ last.gh.dbFailed
    /\ Done("unblock") =>
          last.gh.blockCalls = 0 /\ last.gh.unblockCalls =< 1
    /\ (Done("block") \/ Done("unblock")) /\ last.gh.provErr.status = 429 =>
          /\ last.resp.status = 429
          /\ last.gh.blockCalls + last.gh.unblockCalls = 1
          /\ ~last.gh.wrote \/ ~last.gh.committed

\* a block call that the provider refused with 429 was answered 429 after
\* one provider call, the user not being blocked anywhere
C23_Witness ==
    /\ Done("block") /\ last.gh.provErr = [kind |-> "api", status |-> 429]
    /\ last.gh.blockCalls = 1 /\ last.gh.unblockCalls = 0
    /\ last.resp.status = 429
    /\ ~idp[last.req.target].blocked
    /\ ~ActiveBlock(last.req.target)

(***************************************************************************)
(* Properties of the generated code (checked under SpecLength)             *)
(***************************************************************************)
\* C24: every mapping that createShortURLHandler returns for a request
\* without a code has is_custom = false, the caller's user id (NULL for no
\* caller) and a code of 8 characters when the configured length is 0 or
\* negative and of that length when it is positive.
C24_GeneratedCodeLength ==
    Done("create") /\ last.req.code = <<>> /\ last.resp.status = 201 =>
        /\ last.resp.row \in last.gh.added
        /\ last.resp.row.is_custom = FALSE
        /\ last.resp.row.user_id = last.req.user
        /\ last.resp.row.long_url = last.req.url
        /\ cfgLen =< 0 => Len(last.resp.row.id) = 8
        /\ cfgLen > 0 => Len(last.resp.row.id) = cfgLen

\* with the length 3 configured an anonymous caller got a mapping with a
\* code of 3 characters
C24_Witness ==
    /\ Done("create") /\ last.req.code = <<>> /\ last.req.user = Nil
    /\ last.resp.status = 201
    /\ cfgLen = 3 /\ Len(last.resp.row.id) = 3
    /\ last.resp.row.user_id = Nil /\ ~last.resp.row.is_custom

(***************************************************************************)
(* Properties of deletion seen by resolution (checked under SpecResolve)   *)
(***************************************************************************)
\* C25 (as stated): when a delete of a code answers 204 after its cache
\* eviction succeeded, no resolve of the code having been in flight during
\* the delete, the store holds no row and the cache no entry of the code.
C25_GoneWhenDeleteReturns ==
    [][\A p \in Procs :
          (/\ pc[p] = "cache_del" /\ pc'[p] = "idle"
           /\ last'.resp.status = 204
           /\ last'.gh.evicted /\ ~last'.gh.raced) =>
              /\ \A r \in urls' : r.id # req[p].code
              /\ getUrlKey(req[p].code) \notin DOMAIN cache']_vars

\* C25 (amended): after such a delete, and as long as the code has not been
\* allocated again since the delete removed its row, the store holds no row
\* and the cache no entry of the code; a resolve of the code that starts
\* while that is so, and during which the code is not allocated, misses the
\* cache and answers 404, or 500 when its store read fails.
C25_GoneUntilAllocatedAgain ==
    /\ (/\ Done("delete") /\ last.resp.status = 204
        /\ last.gh.evicted /\ ~last.gh.raced
        /\ allocCount[last.req.code] = last.gh.allocAt) =>
           /\ Stored(last.req.code) = {}
           /\ getUrlKey(last.req.code) \notin DOMAIN cache
    /\ (/\ Done("get") /\ last.gh.clean
        /\ allocCount[last.req.code] = last.gh.allocAt) =>
           /\ last.gh.cacheVal = NoUrl
           /\ last.gh.dbReads = 1
           /\ last.gh.storeAns.res # "ok"
           /\ last.resp.status = (IF last.gh.dbErr THEN 500 ELSE 404)

\* a resolve that followed the delete of the only mapping the code ever had
\* answered 404
C25_Witness ==
    /\ Done("get") /\ last.gh.clean
    /\ allocCount[last.req.code] = 1 /\ last.gh.allocAt = 1
    /\ delCount[last.req.code] = 1
    /\ last.resp.status = 404

(***************************************************************************)
(* Properties of the bulk delete (checked under SpecBulk)                  *)
(***************************************************************************)
\* C26 (as stated): the bulk delete that answers has evicted the cache entry
\* of every code it deleted.
C26_EvictsEveryDeletedCode ==
    [][\A p \in Procs :
          (pc[p] = "cache_del_all" /\ pc'[p] = "idle") =>
              \A x \in loc[p].deletedIDs : getUrlKey(x) \notin DOMAIN cache']_vars

\* C26 (amended): the bulk delete's query, when it does not fail, removes
\* exactly the rows whose user_id is the user and leaves every other row as
\* it is; the handler then answers 200 with their number, leaves the cache
\* entry of every code it did not delete as it is and, when its cache
\* eviction does not fail, has evicted the entry of every code it deleted.
C26_BulkDeleteFrame ==
    [][\A p \in Procs :
          /\ (pc[p] = "db_delete_all" /\ pc'[p] # "db_delete_all"
                /\ ~HistoryAfter(p).dbFailed) =>
                /\ urls' = urls \ OwnedBy(req[p].user)
                /\ \A r \in urls' : r.user_id # req[p].user
                /\ pc'[p] = "cache_del_all"
                /\ loc'[p].deletedIDs = {r.id : r \in OwnedBy(req[p].user)}
                /\ gh'[p].delN = Cardinality(OwnedBy(req[p].user))
                /\ cache' = cache
          /\ (pc[p] = "cache_del_all" /\ pc'[p] = "idle") =>
                /\ last'.resp.status = 200
                /\ last'.resp.deleted = Cardinality(loc[p].deletedIDs)
                /\ last'.resp.deleted = last'.gh.delN
                /\ urls' = urls
                /\ \A k \in DOMAIN cache :
                      k \notin {getUrlKey(x) : x \in loc[p].deletedIDs} =>
                          k \in DOMAIN cache' /\ cache'[k] = cache[k]
                /\ DOMAIN cache' \subseteq DOMAIN cache
                /\ last'.gh.evicted =>
                      \A x \in loc[p].deletedIDs : getUrlKey(x) \notin DOMAIN cache']_vars

\* a bulk delete removed the one mapping of its user, evicted, and left the
\* mapping of no owner in the store
C26_Witness ==
    /\ Done("delete_user") /\ last.resp.status = 200
    /\ last.resp.deleted = 1 /\ last.gh.evicted
    /\ OwnedBy(last.req.user) = {}
    /\ \E r \in urls : r.user_id = Nil

\* C27: a block call that answers 201 leaves the record of the user with
\* blocked_at the time of that call, also when it overwrote a record.
C27_BlockedAtIsThisCall ==
    [][\A p \in Procs :
          BlockSucceeds(p) =>
              /\ last'.resp.block.blocked_at = loc[p].txTime
              /\ \A r \in BlocksOf(user_blocks', req[p].target) :
                    r.blocked_at = loc[p].txTime]_vars

\* C28: an unblock call that answers 200 leaves the user's record with
\* unblocked_by the acting admin and unblocked_at a time that is not null,
\* and with user_id, user_email, blocked_by, blocked_at and reason as they
\* were; in every record the two unblock fields are null together, so both
\* are null in the record of a user who is blocked.
C28_UnblockSetsUnblockFieldsOnly ==
    [][/\ \A p \in Procs :
             (pc[p] = "commit_unblock" /\ pc'[p] = "idle"
                /\ last'.resp.status = 200) =>
                 LET u == req[p].target
                     row == last'.resp.block
                 IN /\ BlocksOf(user_blocks', u) = {row}
                    /\ row.unblocked_by = req[p].user
                    /\ row.unblocked_at = loc[p].txTime
                    /\ row.unblocked_at # NoTime
                    /\ \E old \in BlocksOf(user_blocks, u) :
                          /\ row.user_id = old.user_id
                          /\ row.user_email = old.user_email
                          /\ row.blocked_by = old.blocked_by
                          /\ row.blocked_at = old.blocked_at
                          /\ row.reason = old.reason
       /\ \A r \in user_blocks' :
             (r.unblocked_at = NoTime) <=> (r.unblocked_by = Nil)]_vars

C28_Witness ==
    /\ Done("unblock") /\ last.resp.status = 200 /\ last.gh.found = "active"
    /\ last.resp.block \in user_blocks
    /\ last.resp.block.unblocked_by = last.req.user
    /\ last.resp.block.unblocked_at > last.resp.block.blocked_at
    /\ last.resp.block.blocked_by # last.req.user

\* C29: in every reachable state user_blocks holds at most one record for a
\* user id, and no step of a block or unblock call, whether the call then
\* succeeds or fails, takes away the record of a user who has one.
C29_OneRecordKept ==
    [][\A u \in Targets :
          /\ Cardinality(BlocksOf(user_blocks', u)) =< 1
          /\ BlocksOf(user_blocks, u) # {} => BlocksOf(user_blocks', u) # {}]_vars

C29_Witness ==
    /\ Done("unblock") /\ last.resp.status = 200
    /\ last.gh.found = "unblocked"
    /\ Cardinality(BlocksOf(user_blocks, last.req.target)) = 1
    /\ Cardinality(user_blocks) = 1

\* C30: a row enters urls with is_custom = TRUE only from a create call that
\* supplied the row's code; a row stored by a create call without a code has
\* is_custom = FALSE and user_id the caller's id, which is null for an
\* anonymous caller.
C30_CustomOnlyWhenSupplied ==
    [][\A r \in urls' \ urls :
          \E p \in Procs :
             /\ pc'[p] = "idle"
             /\ \/ /\ pc[p] = "gen_insert" /\ req[p].code = <<>>
                   /\ ~r.is_custom
                   /\ r.user_id = req[p].user
                   /\ r.long_url = req[p].url
                \/ /\ pc[p] = "custom_insert" /\ req[p].code # <<>>
                   /\ r.is_custom
                   /\ r.id = req[p].code
                   /\ r.user_id = req[p].user]_vars

C30_Witness ==
    /\ Done("create") /\ last.req.code = <<>> /\ last.req.user = "u1"
    /\ last.resp.status = 201
    /\ last.resp.row \in urls
    /\ ~last.resp.row.is_custom /\ last.resp.row.user_id = "u1"
    /\ \E r \in urls : ~r.is_custom /\ r.user_id = Nil

(***************************************************************************)
(* Properties of a code that is allocated again (checked under SpecReuse)  *)
(***************************************************************************)
\* C31 as stated, its first half: right after a row enters urls the cache
\* holds no entry for the row's code.
C31_NoEntryAfterCreate ==
    [][\A r \in urls' \ urls : getUrlKey(r.id) \notin DOMAIN cache']_vars

\* C31: no step of createShortURLHandler changes the cache, so after a row
\* enters urls the cache holds an entry for its code only if it held that
\* entry before; a resolve whose cache read finds no entry for its code goes
\* on to read the store, and what it then answers is the long URL of the row
\* the store holds.
C31_CreateLeavesCache ==
    [][\A p \in Procs :
          /\ (pc[p] = "idle" /\ req'[p].op = "create") => cache' = cache
          /\ (pc[p] \in {"custom_insert", "gen_insert"}
                /\ (pc'[p] # pc[p] \/ loc'[p] # loc[p])) => cache' = cache
          /\ (pc[p] = "cache_get" /\ pc'[p] # pc[p]
                /\ getUrlKey(req[p].code) \notin DOMAIN cache) =>
                 /\ pc'[p] = "db_get"
                 /\ gh'[p].cacheVal = NoUrl
          /\ (pc[p] = "db_get" /\ pc'[p] = "cache_set") =>
                 \E r \in urls : r.id = req[p].code /\ r.long_url = loc'[p].longUrl]_vars

C31_Witness ==
    /\ Done("get") /\ last.req.code = CodeA8
    /\ allocCount[CodeA8] = 2
    /\ last.gh.cacheVal = NoUrl /\ ~last.gh.cacheErr /\ last.gh.dbReads = 1
    /\ last.resp.status = 200 /\ last.resp.longUrl = UrlB
    /\ \E r \in urls : r.id = CodeA8 /\ r.long_url = UrlB

(***************************************************************************)
(* Properties of deletions and the cache (checked under SpecEvict)         *)
(***************************************************************************)
\* C32: when the cache eviction of a delete fails after the store query
\* went through, the delete by code answers 204 and the bulk delete 200 with
\* the number of rows it removed; the answering step changes neither the
\* rows, so what was deleted stays deleted, nor the cache, so the entry of
\* the code is as it was.
C32_FailedEvictionOnlyLogged ==
    [][\A p \in Procs :
          /\ (pc[p] = "cache_del" /\ pc'[p] = "idle" /\ ~last'.gh.evicted) =>
                /\ last'.resp.status = 204
                /\ last'.gh.delN = 1
                /\ urls' = urls
                /\ cache' = cache
          /\ (pc[p] = "cache_del_all" /\ pc'[p] = "idle" /\ ~last'.gh.evicted) =>
                /\ last'.resp.status = 200
                /\ last'.resp.deleted = Cardinality(loc[p].deletedIDs)
                /\ urls' = urls
                /\ \A r \in urls : r.id \notin loc[p].deletedIDs
                /\ cache' = cache]_vars

C32_Witness ==
    /\ Done("delete") /\ last.req.code = CodeA8
    /\ last.resp.status = 204 /\ ~last.gh.evicted /\ last.gh.delN = 1
    /\ getUrlKey(CodeA8) \in DOMAIN cache
    /\ cache[getUrlKey(CodeA8)].val = UrlA
    /\ \A r \in urls : r.id # CodeA8

\* C33: the query of the user's own delete removes the row of the code when
\* the row's user_id is the caller's id and then goes on to the eviction;
\* when the row belongs to another user or to nobody, or there is none, it
\* changes no row and the handler answers 404 without touching the cache.
C33_DeleteOwnOnly ==
    [][\A p \in Procs :
          (pc[p] = "db_delete_own" /\ pc'[p] # pc[p] /\ ~HistoryAfter(p).dbFailed) =>
              LET rows == {r \in urls : r.id = req[p].code}
              IN IF \E r \in rows : r.user_id = req[p].user
                 THEN /\ urls' = urls \ rows
                      /\ pc'[p] = "cache_del"
                      /\ gh'[p].delN = 1
                 ELSE /\ urls' = urls
                      /\ cache' = cache
                      /\ pc'[p] = "idle"
                      /\ last'.resp.status = 404
                      /\ last'.gh.delN = 0]_vars

C33_Witness ==
    /\ Done("delete_own") /\ last.req.code = CodeA8 /\ last.req.user = "u2"
    /\ last.resp.status = 404
    /\ \E r \in urls : r.id = CodeA8 /\ r.user_id = "u1"
    /\ getUrlKey(CodeA8) \in DOMAIN cache

(***************************************************************************)
(* Properties of resolves that follow a delete (checked under SpecReuse)   *)
(***************************************************************************)
\* C34 as stated: a resolve of a code that starts after a delete of the code
\* answered 204 with its eviction done, the code not allocated since, answers
\* 404 (its store read not failing), whether or not resolves of the code were
\* in flight during the delete.
C34_NotFoundAfterEvictingDelete ==
    (/\ Done("get") /\ last.gh.afterEvict # "no"
     /\ allocCount[last.req.code] = last.gh.allocAt) =>
        (last.resp.status = 404 \/ last.gh.dbErr)

\* C34 (amended): such a resolve misses the cache, reads the store and
\* answers 404, or 500 when the store read fails, when no resolve of the code
\* was in flight during the delete; when one was, it answers that or a long
\* URL the code had, read from a cache entry written after the eviction.
C34_NotFoundAfterQuietDelete ==
    (/\ Done("get") /\ last.gh.afterEvict # "no"
     /\ allocCount[last.req.code] = last.gh.allocAt) =>
        IF last.gh.afterEvict = "quiet" \/ last.gh.cacheVal = NoUrl
        THEN /\ last.gh.cacheVal = NoUrl
             /\ last.gh.dbReads = 1
             /\ last.gh.storeAns.res # "ok"
             /\ last.gh.cacheWrites = 0
             /\ last.resp.status = (IF last.gh.dbErr THEN 500 ELSE 404)
        ELSE /\ last.gh.dbReads = 0
             /\ last.resp.status = 200
             /\ last.resp.longUrl = last.gh.cacheVal
             /\ <<last.req.code, last.resp.longUrl>> \in everHeld

C34_Witness ==
    /\ Done("get") /\ last.req.code = CodeA8
    /\ last.gh.afterEvict = "quiet"
    /\ allocCount[CodeA8] = last.gh.allocAt
    /\ delCount[CodeA8] = 1
    /\ ~last.gh.dbErr /\ last.resp.status = 404

(***************************************************************************)
(* The cache after a delete, in the long run (checked under SpecReuseLive) *)
(***************************************************************************)
\* C35: every run reaches a point from which a code that has no row has no
\* cache entry either and no resolve is about to write one; and once a code
\* is in that condition no step that leaves it without a row puts an entry
\* for it into the cache or makes a resolve ready to write one, and every
\* resolve of it that answers meanwhile answers 404, or 500 when its store
\* read failed.
C35_EventuallyNotFound ==
    /\ <>[](\A x \in AllCodes :
               Stored(x) = {} =>
                  /\ getUrlKey(x) \notin DOMAIN cache
                  /\ \A p \in Procs : ~(pc[p] = "cache_set" /\ req[p].code = x))
    /\ [][\A x \in AllCodes :
             (/\ Stored(x) = {}
              /\ getUrlKey(x) \notin DOMAIN cache
              /\ \A p \in Procs : ~(pc[p] = "cache_set" /\ req[p].code = x)
              /\ \A r \in urls' : r.id # x) =>
                 /\ getUrlKey(x) \notin DOMAIN cache'
                 /\ \A p \in Procs : ~(pc'[p] = "cache_set" /\ req'[p].code = x)
                 /\ \A p \in Procs :
                       (req[p].op = "get" /\ req[p].code = x /\ pc'[p] = "idle") =>
                           /\ last'.resp.longUrl = NoUrl
                           /\ last'.resp.status = (IF last'.gh.dbErr THEN 500 ELSE 404)]_vars

C35_Witness ==
    /\ Done("get") /\ last.req.code = CodeA8
    /\ last.resp.status = 404
    /\ last.gh.afterEvict = "no"
    /\ delCount[CodeA8] = 1 /\ allocCount[CodeA8] = 1
    /\ ops = MaxOps
    /\ cache = <<>>

(***************************************************************************)
(* Resolves that find no row (checked under SpecStale)                     *)
(***************************************************************************)
\* C36 as stated, its consequence: a resolve of a code that starts after the
\* code was allocated, the allocation following a resolve of the code that
\* answered 404, answers the long URL of the new row (the row still stored
\* and the store read of the resolve not failing).
C36_NextResolveSeesNewMapping ==
    (/\ Done("get") /\ last.gh.after404 /\ ~last.gh.dbErr
     /\ Stored(last.req.code) # {}
     /\ allocCount[last.req.code] = last.gh.allocAt) =>
        /\ last.resp.status = 200
        /\ \A r \in Stored(last.req.code) : last.resp.longUrl = r.long_url

\* C36 (amended): the store read of a resolve never changes the cache, and
\* a resolve that answers 404 or 500 has written nothing to it; a resolve as
\* above that misses the cache answers the long URL of the new row, or 500
\* when its store read fails, and one that hits answers a long URL the code
\* had, without reading the store.
C36_NotFoundNeverCached ==
    [][\A p \in Procs :
          /\ (pc[p] = "db_get" /\ pc'[p] # pc[p]) => cache' = cache
          /\ (req[p].op = "get" /\ InFlight(p) /\ pc'[p] = "idle") =>
                /\ last'.resp.status \in {404, 500} =>
                      /\ cache' = cache
                      /\ last'.gh.cacheWrites = 0
                /\ (/\ last'.gh.after404
                    /\ \E r \in urls' : r.id = req[p].code
                    /\ allocCount'[req[p].code] = last'.gh.allocAt) =>
                      IF last'.gh.cacheVal = NoUrl
                      THEN /\ last'.gh.dbReads = 1
                           /\ last'.resp.status = (IF last'.gh.dbErr THEN 500 ELSE 200)
                           /\ ~last'.gh.dbErr =>
                                 \A r \in urls' : r.id = req[p].code =>
                                     last'.resp.longUrl = r.long_url
                      ELSE /\ last'.gh.dbReads = 0
                           /\ last'.resp.status = 200
                           /\ last'.resp.longUrl = last'.gh.cacheVal
                           /\ <<req[p].code, last'.resp.longUrl>> \in everHeld]_vars

C36_Witness ==
    /\ Done("get") /\ last.req.code = CodeA8 /\ last.gh.after404
    /\ last.gh.cacheVal = NoUrl /\ last.gh.dbReads = 1
    /\ last.resp.status = 200 /\ last.resp.longUrl = UrlB
    /\ \E r \in urls : r.id = CodeA8 /\ r.long_url = UrlB
    /\ allocCount[CodeA8] = 2

(***************************************************************************)
(* Deletes that remove no row (checked under SpecEvict)                    *)
(***************************************************************************)
\* C37: no step of a delete by code, the admin's or the user's own, whose
\* query removed no row changes the cache: the call answers 404 from the
\* step of its query and never reaches the eviction; a resolve of the code
\* that reads the cache next finds the entry that was there and answers its
\* long URL without reading the store.
C37_ZeroRowsNoEviction ==
    [][\A p \in Procs :
          /\ (pc[p] = "idle" /\ pc'[p] \in {"db_delete", "db_delete_own"}) =>
                cache' = cache
          /\ (/\ pc[p] \in {"db_delete", "db_delete_own"} /\ pc'[p] # pc[p]
              /\ HistoryAfter(p).delRes = "ok" /\ HistoryAfter(p).delN = 0) =>
                /\ pc'[p] = "idle"
                /\ last'.resp.status = 404
                /\ urls' = urls
                /\ cache' = cache
          /\ (/\ last.req.op \in {"delete", "delete_own"}
              /\ last.resp.status = 404 /\ last.gh.delN = 0
              /\ pc[p] = "cache_get" /\ pc'[p] # pc[p]
              /\ req[p].code = last.req.code
              /\ getUrlKey(req[p].code) \in DOMAIN cache
              /\ ~HistoryAfter(p).cacheErr) =>
                /\ pc'[p] = "idle"
                /\ last'.resp.status = 200
                /\ last'.resp.longUrl = cache[getUrlKey(req[p].code)].val
                /\ last'.gh.dbReads = 0]_vars

\* a user's delete of another user's code answered 404 while the entry
\* cached for the code is still there, and a resolve of the code is about to
\* read it
C37_Witness ==
    /\ Done("delete_own") /\ last.req.code = CodeA8
    /\ last.resp.status = 404 /\ last.gh.delN = 0
    /\ getUrlKey(CodeA8) \in DOMAIN cache
    /\ cache[getUrlKey(CodeA8)].val = UrlA
    /\ \E p \in Procs : pc[p] = "cache_get" /\ req[p].code = CodeA8

(***************************************************************************)
(* Two admins blocking one user (checked under SpecRace)                   *)
(***************************************************************************)
\* C38: a block call of a user whose provider call, upsert and commit go
\* through answers 201 also when another admin's block call of the user is
\* in flight; its commit leaves one record of the user, whose blocked_by and
\* reason are those of the committing call and whose user_email is the one
\* that call read at the provider, with unblocked_by and unblocked_at NULL;
\* a call whose commit fails leaves the record as it was.  The record is so,
\* after any number of calls, the one of the call that committed last.
C38_OneRecordFromOneCall ==
    [][\A p \in Procs :
          (pc[p] = "commit_block" /\ pc'[p] = "idle") =>
              IF last'.gh.committed
              THEN /\ last'.resp.status = 201
                   /\ Cardinality(BlocksOf(user_blocks', req[p].target)) = 1
                   /\ \A r \in BlocksOf(user_blocks', req[p].target) :
                         /\ r.blocked_by = req[p].user
                         /\ r.reason = req[p].reason
                         /\ r.user_email = loc[p].email
                         /\ r.unblocked_by = Nil
                         /\ r.unblocked_at = NoTime
                         /\ last'.resp.block.blocked_by = r.blocked_by
                         /\ last'.resp.block.reason = r.reason
                         /\ last'.resp.block.user_email = r.user_email
              ELSE /\ last'.resp.status = 500
                   /\ user_blocks' = user_blocks]_vars

\* a2's call started while a1's was in flight, found the record a1's call
\* had committed and answered 201; no call failed, and the one record is
\* a2's throughout
C38_Witness ==
    /\ Done("block") /\ last.resp.status = 201 /\ last.req.user = "a2"
    /\ last.gh.overlapped /\ last.gh.foundBy = "a1" /\ last.gh.found = "active"
    /\ ops = 2 /\ \A p \in Procs : pc[p] = "idle"
    /\ ~failed[UserT1]
    /\ Cardinality(BlocksOf(user_blocks, UserT1)) = 1
    /\ \A r \in BlocksOf(user_blocks, UserT1) :
          /\ r.blocked_by = "a2" /\ r.reason = ReasonBot
          /\ r.unblocked_by = Nil /\ r.unblocked_at = NoTime

====
